---- MODULE Spec2Model ----
(***************************************************************************)
(* Texas Hold'em betting engine (PokerEngine) and hand evaluator           *)
(* (HandEvaluator) of the onlinepoker repository.                          *)
(*                                                                         *)
(* Seats are 0-based as in the JavaScript source; the TLA+ sequence        *)
(* `players` is 1-based, so seat i is players[i + 1].                      *)
(* A card is an integer 0..51 in createDeck order: suit = c \div 13        *)
(* (hearts, diamonds, clubs, spades), value = (c % 13) + 2 (2..14).        *)
(***************************************************************************)
EXTENDS Integers, Sequences, FiniteSets, TLC

\* ------------------------------------------------------------------------
\* Bounds of the model
\* ------------------------------------------------------------------------

\* the big blind handed to the constructor (the engine's default is 20)
BigBlind == 2

\* calls of processAction and advance explored after the hand is complete
MaxAfter == 1

\* messages the event log may hold before the calls that log are cut off
MaxLog == 16

\* hands of a match that are started, and hands that are also played
MaxHands == 2

PlayedHands == 1

\* the stacks of the players handed to the constructor, in seat order
StartingStacks ==
    { <<7, 7>>, <<1, 7>>, <<7, 1>>, <<0, 7>>, <<5, 8, 1>>, <<3, 5, 3>>,
      <<0, 3, 3>> }

\* ------------------------------------------------------------------------
\* Cards
\* ------------------------------------------------------------------------

CardValue(c) == (c % 13) + 2

CardSuit(c) == c \div 13

createDeck == [i \in 1..52 |-> i - 1]

\* Fisher-Yates: for i = 51 down to 1 swap shuffled[i] with shuffled[j],
\* j = floor(random * (i + 1)); rnd[i] is the j drawn at step i (0-based).
RECURSIVE shuffleFrom(_, _, _)
shuffleFrom(shuffled, rnd, i) ==
    IF i <= 0 THEN shuffled
    ELSE LET j == rnd[i]
             swapped == [shuffled EXCEPT ![i + 1] = shuffled[j + 1],
                                         ![j + 1] = shuffled[i + 1]]
         IN  shuffleFrom(swapped, rnd, i - 1)

shuffleDeck(deck, rnd) == shuffleFrom(deck, rnd, Len(deck) - 1)

\* dealCards(deck, count).dealt and .remaining
dealt(deck, count) == SubSeq(deck, 1, IF count < Len(deck) THEN count ELSE Len(deck))

remaining(deck, count) == SubSeq(deck, count + 1, Len(deck))

\* ------------------------------------------------------------------------
\* HandEvaluator
\* ------------------------------------------------------------------------

HIGH_CARD == 1
ONE_PAIR == 2
TWO_PAIR == 3
THREE_OF_A_KIND == 4
STRAIGHT == 5
FLUSH == 6
FULL_HOUSE == 7
FOUR_OF_A_KIND == 8
STRAIGHT_FLUSH == 9
ROYAL_FLUSH == 10

\* [...s].sort((a, b) => b - a): a stable descending sort of a sequence of
\* numbers, as an insertion sort
RECURSIVE insertDesc(_, _)
insertDesc(sorted, x) ==
    IF sorted = <<>> THEN <<x>>
    ELSE IF Head(sorted) >= x THEN <<Head(sorted)>> \o insertDesc(Tail(sorted), x)
    ELSE <<x>> \o sorted

RECURSIVE sortDescUpTo(_, _)
sortDescUpTo(s, n) ==
    IF n = 0 THEN <<>> ELSE insertDesc(sortDescUpTo(s, n - 1), s[n])

SortDesc(s) == sortDescUpTo(s, Len(s))

\* Array.prototype.find, applied to the elements that pass its test: the
\* first of them, or 0 when there is none
find(hits) == IF hits = <<>> THEN 0 ELSE hits[1]

isFlush(cards) == \A i \in 1..Len(cards) : CardSuit(cards[i]) = CardSuit(cards[1])

\* a faulty isStraight: the wheel is not a straight
isStraightWithoutWheel(cards) ==
    LET sorted == SortDesc([i \in 1..Len(cards) |-> CardValue(cards[i])])
    IN  \A i \in 1..4 : sorted[i] - sorted[i + 1] = 1

isStraight(cards) ==
    LET sorted == SortDesc([i \in 1..Len(cards) |-> CardValue(cards[i])])
    IN  \/ /\ sorted[1] = 14 /\ sorted[2] = 5 /\ sorted[3] = 4
           /\ sorted[4] = 3 /\ sorted[5] = 2
        \/ \A i \in 1..4 : sorted[i] - sorted[i + 1] = 1

\* groupByRank: the values present, in ascending key order, with their counts
rankKeys(cards) ==
    SelectSeq([v \in 1..13 |-> v + 1],
              LAMBDA v : \E i \in 1..Len(cards) : CardValue(cards[i]) = v)

rankCount(cards, v) == Cardinality({i \in 1..Len(cards) : CardValue(cards[i]) = v})

\* faulty kickers of a straight: the highest card, also for the wheel
straightKickersAceHigh(values) == <<values[1]>>

\* the kickers of a straight: the high card of the run, 5 for the wheel
straightKickers(values) ==
    IF values[1] = 14 /\ values[2] = 5 THEN <<5>> ELSE <<values[1]>>

evaluate5CardHand(cards) ==
    LET values == SortDesc([i \in 1..Len(cards) |-> CardValue(cards[i])])
        keys == rankKeys(cards)
        groupSizes == SortDesc([i \in 1..Len(keys) |-> rankCount(cards, keys[i])])
        flush == isFlush(cards)
        straight == isStraight(cards)
        keyOfSize(n) == find(SelectSeq(keys, LAMBDA k : rankCount(cards, k) = n))
        notValue(s, v) == SelectSeq(s, LAMBDA x : x # v)
    IN  IF flush /\ straight /\ values[1] = 14 /\ values[5] = 10
          THEN [rank |-> ROYAL_FLUSH, kickers |-> values]
        ELSE IF flush /\ straight
          THEN [rank |-> STRAIGHT_FLUSH, kickers |-> values]
        ELSE IF groupSizes[1] = 4
          THEN LET quadValue == keyOfSize(4)
                   kicker == find(SelectSeq(values, LAMBDA v : v # quadValue))
               IN  [rank |-> FOUR_OF_A_KIND, kickers |-> <<quadValue, kicker>>]
        ELSE IF groupSizes[1] = 3 /\ groupSizes[2] = 2
          THEN [rank |-> FULL_HOUSE, kickers |-> <<keyOfSize(3), keyOfSize(2)>>]
        ELSE IF flush
          THEN [rank |-> FLUSH, kickers |-> values]
        ELSE IF straight
          THEN [rank |-> STRAIGHT, kickers |-> straightKickers(values)]
        ELSE IF groupSizes[1] = 3
          THEN LET tripValue == keyOfSize(3)
               IN  [rank |-> THREE_OF_A_KIND,
                    kickers |-> <<tripValue>> \o SubSeq(notValue(values, tripValue), 1, 2)]
        ELSE IF groupSizes[1] = 2 /\ groupSizes[2] = 2
          THEN LET pairValues == SortDesc(SelectSeq(keys, LAMBDA k : rankCount(cards, k) = 2))
                   kicker == find(SelectSeq(values, LAMBDA v :
                                \A i \in 1..Len(pairValues) : pairValues[i] # v))
               IN  [rank |-> TWO_PAIR, kickers |-> pairValues \o <<kicker>>]
        ELSE IF groupSizes[1] = 2
          THEN LET pairValue == keyOfSize(2)
               IN  [rank |-> ONE_PAIR,
                    kickers |-> <<pairValue>> \o SubSeq(notValue(values, pairValue), 1, 3)]
        ELSE [rank |-> HIGH_CARD, kickers |-> values]

\* sign-carrying difference, as in the source
RECURSIVE compareKickers(_, _, _)
compareKickers(k1, k2, i) ==
    IF i > Len(k1) \/ i > Len(k2) THEN 0
    ELSE IF k1[i] # k2[i] THEN k1[i] - k2[i]
    ELSE compareKickers(k1, k2, i + 1)

\* a faulty compareHands: the difference without its sign
compareHandsUnsigned(hand1, hand2) ==
    LET difference == IF hand1.rank # hand2.rank THEN hand1.rank - hand2.rank
                      ELSE compareKickers(hand1.kickers, hand2.kickers, 1)
    IN  IF difference < 0 THEN 0 - difference ELSE difference

\* a faulty compareHands: only the first kicker is compared
compareHandsFirstKicker(hand1, hand2) ==
    IF hand1.rank # hand2.rank THEN hand1.rank - hand2.rank
    ELSE IF hand1.kickers[1] # hand2.kickers[1]
    THEN hand1.kickers[1] - hand2.kickers[1]
    ELSE 0

compareHands(hand1, hand2) ==
    IF hand1.rank # hand2.rank THEN hand1.rank - hand2.rank
    ELSE compareKickers(hand1.kickers, hand2.kickers, 1)

\* getCombinations: the index tuples i < j < k < l < m of n cards, in the
\* order the five nested loops push them (lexicographic)
RECURSIVE combinationsFrom(_, _, _)
combinationsFrom(n, chosen, next) ==
    IF Len(chosen) = 5 THEN <<chosen>>
    ELSE IF next > n THEN <<>>
    ELSE combinationsFrom(n, Append(chosen, next), next + 1)
             \o combinationsFrom(n, chosen, next + 1)

getCombinations(n) == combinationsFrom(n, <<>>, 1)

\* the result the source calls null: no hand
NoHand == [rank |-> 0, kickers |-> <<>>]

RECURSIVE bestOfCombos(_, _, _, _)
bestOfCombos(allCards, combos, i, bestHand) ==
    IF i > Len(combos) THEN bestHand
    ELSE LET c == combos[i]
             combo == <<allCards[c[1]], allCards[c[2]], allCards[c[3]],
                        allCards[c[4]], allCards[c[5]]>>
             evaluation == evaluate5CardHand(combo)
         IN  bestOfCombos(allCards, combos, i + 1,
                 IF bestHand = NoHand \/ compareHands(evaluation, bestHand) > 0
                 THEN evaluation ELSE bestHand)

\* a faulty evaluateBestHand: only the first five cards are evaluated
evaluateFirstFiveCards(holeCards, communityCards) ==
    LET allCards == holeCards \o communityCards
    IN  IF Len(allCards) < 5 THEN NoHand
        ELSE evaluate5CardHand(SubSeq(allCards, 1, 5))

evaluateBestHand(holeCards, communityCards) ==
    LET allCards == holeCards \o communityCards
    IN  IF Len(allCards) < 5 THEN NoHand
        ELSE IF Len(allCards) = 5 THEN evaluate5CardHand(allCards)
        ELSE bestOfCombos(allCards, getCombinations(Len(allCards)), 1, NoHand)

\* ------------------------------------------------------------------------
\* PokerEngine: state
\* ------------------------------------------------------------------------

PREFLOP == "preflop"
FLOP == "flop"
TURN == "turn"
RIVER == "river"
SHOWDOWN == "showdown"

FOLD == "fold"
CHECK == "check"
CALL == "call"
BET == "bet"
RAISE == "raise"
ALL_IN == "all_in"

VARIABLES
    players,            \* this.players: sequence of player records
    pot,                \* this.pot
    communityCards,     \* this.communityCards
    deck,               \* this.deck
    phase,              \* this.phase
    currentBet,         \* this.currentBet
    minRaise,           \* this.minRaise
    dealerIndex,        \* this.dealerIndex
    currentPlayerIndex, \* this.currentPlayerIndex
    lastRaiserIndex,    \* this.lastRaiserIndex (-1: none)
    gameLog,            \* this.gameLog: the number of messages logged
    isHandComplete,     \* this.isHandComplete
    winners,            \* this.winners: <<[name, amount]>>
    pc,                 \* "idle", or "advancePhase" while a call of advance is
                        \* inside the loop of advancePhase that looks for a
                        \* player who can act
    result,             \* the last call made by the driver and what it returned
    hands,              \* number of startNewHand calls so far
    after,              \* number of calls made since the hand was complete
    handStart,          \* observation: sum of the stacks when the current hand
                        \* started (before the blinds), -1 when no hand started
    acted,              \* observation: seats whose action processAction
                        \* accepted in the current betting round
    evalOp,             \* the last function of the hand evaluator that was
                        \* called on its own, "none" before any
    evalCards,          \* the cards of the last hand that was evaluated
    evalHand,           \* the hand value the evaluator returned for them
    evalOther,          \* compareHands: the hand value evalHand is compared to
    evalResult          \* compareHands(evalOther, evalHand)

evalVars == <<evalOp, evalCards, evalHand, evalOther, evalResult>>

vars == <<players, pot, communityCards, deck, phase, currentBet, minRaise,
          dealerIndex, currentPlayerIndex, lastRaiserIndex, gameLog,
          isHandComplete, winners, pc, result, hands, after, handStart, acted,
          evalOp, evalCards, evalHand, evalOther, evalResult>>

smallBlind == BigBlind \div 2

Min(a, b) == IF a < b THEN a ELSE b

\* the engine object as a record, so that methods compose
Engine ==
    [players |-> players, pot |-> pot, communityCards |-> communityCards,
     deck |-> deck, phase |-> phase, currentBet |-> currentBet,
     minRaise |-> minRaise, dealerIndex |-> dealerIndex,
     currentPlayerIndex |-> currentPlayerIndex,
     lastRaiserIndex |-> lastRaiserIndex, gameLog |-> gameLog,
     isHandComplete |-> isHandComplete, winners |-> winners]

\* the unprimed counterpart of Install, for Init
Install_0(e) ==
    /\ players = e.players
    /\ pot = e.pot
    /\ communityCards = e.communityCards
    /\ deck = e.deck
    /\ phase = e.phase
    /\ currentBet = e.currentBet
    /\ minRaise = e.minRaise
    /\ dealerIndex = e.dealerIndex
    /\ currentPlayerIndex = e.currentPlayerIndex
    /\ lastRaiserIndex = e.lastRaiserIndex
    /\ gameLog = e.gameLog
    /\ isHandComplete = e.isHandComplete
    /\ winners = e.winners

Install(e) ==
    /\ players' = e.players
    /\ pot' = e.pot
    /\ communityCards' = e.communityCards
    /\ deck' = e.deck
    /\ phase' = e.phase
    /\ currentBet' = e.currentBet
    /\ minRaise' = e.minRaise
    /\ dealerIndex' = e.dealerIndex
    /\ currentPlayerIndex' = e.currentPlayerIndex
    /\ lastRaiserIndex' = e.lastRaiserIndex
    /\ gameLog' = e.gameLog
    /\ isHandComplete' = e.isHandComplete
    /\ winners' = e.winners

\* a player object as game.js and the bot module create it
NewPlayer(name, chips) ==
    [name |-> name, chips |-> chips, holeCards |-> <<>>, hasFolded |-> FALSE,
     isAllIn |-> FALSE, currentBet |-> 0, totalBetThisRound |-> 0]

\* new PokerEngine(players, bigBlind)
PokerEngine(ps) ==
    [players |-> ps, pot |-> 0, communityCards |-> <<>>, deck |-> <<>>,
     phase |-> "preflop", currentBet |-> 0, minRaise |-> BigBlind,
     dealerIndex |-> 0, currentPlayerIndex |-> 0, lastRaiserIndex |-> -1,
     gameLog |-> 0, isHandComplete |-> FALSE, winners |-> <<>>]

\* player.reset()
reset(p) ==
    [p EXCEPT !.holeCards = <<>>, !.hasFolded = FALSE, !.isAllIn = FALSE,
              !.currentBet = 0, !.totalBetThisRound = 0]

\* this.log(message): the log is kept as the number of its messages
log(e, message) == [e EXCEPT !.gameLog = @ + 1]

NumPlayers(e) == Len(e.players)

\* this.players[index], for an index inside the array
PlayerAt(e, index) == e.players[index + 1]

InRange(e, index) == index >= 0 /\ index < NumPlayers(e)

SumChips(ps) ==
    LET RECURSIVE sum(_)
        sum(i) == IF i = 0 THEN 0 ELSE ps[i].chips + sum(i - 1)
    IN  sum(Len(ps))

\* ------------------------------------------------------------------------
\* PokerEngine: starting a hand
\* ------------------------------------------------------------------------

\* a faulty postBlind: a blind that takes the last chips does not mark the
\* player all-in
postBlindNeverAllIn(e, playerIndex, amount) ==
    LET player == PlayerAt(e, playerIndex)
        blindAmount == Min(amount, player.chips)
        posted == [player EXCEPT !.chips = @ - blindAmount,
                                 !.totalBetThisRound = blindAmount,
                                 !.currentBet = blindAmount]
    IN  log([e EXCEPT !.players[playerIndex + 1] = posted,
                      !.pot = @ + blindAmount],
            IF blindAmount = smallBlind THEN "posts small blind"
                                        ELSE "posts big blind")

postBlind(e, playerIndex, amount) ==
    LET player == PlayerAt(e, playerIndex)
        blindAmount == Min(amount, player.chips)
        posted == [player EXCEPT !.chips = @ - blindAmount,
                                 !.totalBetThisRound = blindAmount,
                                 !.currentBet = blindAmount,
                                 !.isAllIn = IF player.chips - blindAmount = 0
                                             THEN TRUE ELSE @]
    IN  log([e EXCEPT !.players[playerIndex + 1] = posted,
                      !.pot = @ + blindAmount],
            IF blindAmount = smallBlind THEN "posts small blind"
                                        ELSE "posts big blind")

\* faulty blinds: the heads-up rule is left out
postBlindsEveryTable(e) ==
    LET n == NumPlayers(e)
        sbIndex == (e.dealerIndex + 1) % n
        bbIndex == (e.dealerIndex + 2) % n
        blinds == postBlind(postBlind(e, sbIndex, smallBlind), bbIndex, BigBlind)
    IN  [blinds EXCEPT !.currentBet = BigBlind, !.lastRaiserIndex = bbIndex]

postBlinds(e) ==
    LET n == NumPlayers(e)
        sbIndex == (e.dealerIndex + 1) % n
        bbIndex == (e.dealerIndex + 2) % n
        blinds == IF n = 2
                  THEN postBlind(postBlind(e, e.dealerIndex, smallBlind),
                                 (e.dealerIndex + 1) % n, BigBlind)
                  ELSE postBlind(postBlind(e, sbIndex, smallBlind),
                                 bbIndex, BigBlind)
    IN  [blinds EXCEPT !.currentBet = BigBlind,
                       !.lastRaiserIndex = IF n = 2 THEN (e.dealerIndex + 1) % n
                                                    ELSE bbIndex]

\* a faulty deal: each player gets two consecutive cards
RECURSIVE dealHoleTwoAtOnce(_, _)
dealHoleTwoAtOnce(e, k) ==
    IF k >= 2 * NumPlayers(e) THEN e
    ELSE LET seat == k \div 2
         IN  dealHoleTwoAtOnce(
                 [e EXCEPT !.players[seat + 1].holeCards =
                               @ \o dealt(e.deck, 1),
                           !.deck = remaining(e.deck, 1)],
                 k + 1)

\* two rounds of one card to each player in seat order
RECURSIVE dealHoleFrom(_, _)
dealHoleFrom(e, k) ==
    IF k >= 2 * NumPlayers(e) THEN e
    ELSE LET seat == k % NumPlayers(e)
         IN  dealHoleFrom(
                 [e EXCEPT !.players[seat + 1].holeCards =
                               @ \o dealt(e.deck, 1),
                           !.deck = remaining(e.deck, 1)],
                 k + 1)

\* a faulty dealHoleCards built on the faulty deal
dealHoleCardsTwoAtOnce(e) == dealHoleTwoAtOnce(e, 0)

dealHoleCards(e) == dealHoleFrom(e, 0)

\* a faulty deal: one card on every street, the flop included
dealOneCardEachStreet(e) ==
    LET cardsToDeal == IF e.phase \in {FLOP, TURN, RIVER} THEN 1 ELSE 0
        burned == remaining(e.deck, 1)
    IN  log([e EXCEPT !.communityCards = @ \o dealt(burned, cardsToDeal),
                      !.deck = remaining(burned, cardsToDeal)],
            e.phase)

\* a faulty dealCommunityCards: the cards put on the board stay in the deck
dealCommunityCardsLeftInDeck(e) ==
    LET cardsToDeal == IF e.phase = FLOP THEN 3
                       ELSE IF e.phase \in {TURN, RIVER} THEN 1 ELSE 0
        burned == remaining(e.deck, 1)
    IN  log([e EXCEPT !.communityCards = @ \o dealt(burned, cardsToDeal),
                      !.deck = burned],
            e.phase)

dealCommunityCards(e) ==
    LET cardsToDeal == IF e.phase = FLOP THEN 3
                       ELSE IF e.phase \in {TURN, RIVER} THEN 1 ELSE 0
        burned == remaining(e.deck, 1)
    IN  log([e EXCEPT !.communityCards = @ \o dealt(burned, cardsToDeal),
                      !.deck = remaining(burned, cardsToDeal)],
            e.phase)

\* a faulty filter: the players without chips stay at the table
keepBusted(ps) == ps

\* this.players.filter(p => p.chips > 0)
removeBusted(ps) == SelectSeq(ps, LAMBDA p : p.chips > 0)

\* a faulty dealer move: the button stays where it is
keepDealer(e) == e

\* this.dealerIndex = (this.dealerIndex + 1) % this.players.length
moveDealer(e) == [e EXCEPT !.dealerIndex = (@ + 1) % NumPlayers(e)]

\* startNewHand with the shuffle's random draws rnd: <<returned value, engine>>
startNewHand(e, rnd) ==
    LET fresh == [e EXCEPT !.deck = shuffleDeck(createDeck, rnd),
                           !.pot = 0,
                           !.communityCards = <<>>,
                           !.phase = PREFLOP,
                           !.currentBet = 0,
                           !.minRaise = BigBlind,
                           !.lastRaiserIndex = -1,
                           !.isHandComplete = FALSE,
                           !.winners = <<>>,
                           !.gameLog = 0]
        allReset == [i \in 1..Len(e.players) |-> reset(e.players[i])]
        funded == [fresh EXCEPT !.players = removeBusted(allReset)]
    IN  IF NumPlayers(funded) < 2 THEN <<FALSE, funded>>
        ELSE LET n == NumPlayers(funded)
                 moved == moveDealer(funded)
                 cards == dealHoleCards(postBlinds(moved))
                 first == [cards EXCEPT !.currentPlayerIndex =
                              IF n = 2 THEN cards.dealerIndex
                              ELSE (cards.dealerIndex + 3) % n]
             IN  <<TRUE, log(first, "New hand started")>>

\* ------------------------------------------------------------------------
\* PokerEngine: processAction
\* ------------------------------------------------------------------------

\* case FOLD
applyFold(e) ==
    log([e EXCEPT !.players[e.currentPlayerIndex + 1].hasFolded = TRUE], "folds")

\* a faulty CALL: the pot grows but the caller's stack is not charged
applyCallKeepsChips(e) ==
    LET player == PlayerAt(e, e.currentPlayerIndex)
        actualCall == Min(e.currentBet - player.totalBetThisRound, player.chips)
    IN  log([e EXCEPT !.players[e.currentPlayerIndex + 1].totalBetThisRound =
                          @ + actualCall,
                      !.pot = @ + actualCall],
            "calls")

\* a faulty CALL: the whole difference is charged, whatever the stack
applyCallUncapped(e) ==
    LET player == PlayerAt(e, e.currentPlayerIndex)
        callAmount == e.currentBet - player.totalBetThisRound
        paid == [player EXCEPT !.chips = @ - callAmount,
                               !.totalBetThisRound = @ + callAmount,
                               !.currentBet = player.totalBetThisRound + callAmount,
                               !.isAllIn = IF player.chips - callAmount = 0
                                           THEN TRUE ELSE @]
    IN  log([e EXCEPT !.players[e.currentPlayerIndex + 1] = paid,
                      !.pot = @ + callAmount],
            IF paid.chips = 0 THEN "calls (ALL IN)" ELSE "calls")

\* case CALL
applyCall(e) ==
    LET player == PlayerAt(e, e.currentPlayerIndex)
        callAmount == e.currentBet - player.totalBetThisRound
        actualCall == Min(callAmount, player.chips)
        paid == [player EXCEPT !.chips = @ - actualCall,
                               !.totalBetThisRound = @ + actualCall,
                               !.currentBet = player.totalBetThisRound + actualCall,
                               !.isAllIn = IF player.chips - actualCall = 0
                                           THEN TRUE ELSE @]
    IN  log([e EXCEPT !.players[e.currentPlayerIndex + 1] = paid,
                      !.pot = @ + actualCall],
            IF paid.chips = 0 THEN "calls (ALL IN)" ELSE "calls")

\* a faulty validation: only the stack is checked, not the minimum raise
raiseRejectedStackOnly(e, amount) ==
    amount - PlayerAt(e, e.currentPlayerIndex).totalBetThisRound
        > PlayerAt(e, e.currentPlayerIndex).chips

\* case BET, case RAISE: the two early returns
raiseRejected(e, amount) ==
    LET player == PlayerAt(e, e.currentPlayerIndex)
        totalBet == amount
        additionalAmount == totalBet - player.totalBetThisRound
    IN  \/ additionalAmount > player.chips
        \/ /\ totalBet < e.currentBet + e.minRaise
           /\ additionalAmount < player.chips

\* a faulty raise: the minimum raise is not updated
applyRaiseKeepsMinRaise(e, amount) ==
    LET player == PlayerAt(e, e.currentPlayerIndex)
        additionalAmount == amount - player.totalBetThisRound
        paid == [player EXCEPT !.chips = @ - additionalAmount,
                               !.totalBetThisRound = amount,
                               !.currentBet = amount,
                               !.isAllIn = IF player.chips - additionalAmount = 0
                                           THEN TRUE ELSE @]
    IN  log([e EXCEPT !.players[e.currentPlayerIndex + 1] = paid,
                      !.pot = @ + additionalAmount,
                      !.currentBet = amount,
                      !.lastRaiserIndex = e.currentPlayerIndex],
            IF paid.chips = 0 THEN "raises (ALL IN)" ELSE "raises")

\* case BET, case RAISE: the accepted bet
applyRaise(e, amount) ==
    LET player == PlayerAt(e, e.currentPlayerIndex)
        totalBet == amount
        additionalAmount == totalBet - player.totalBetThisRound
        raiseBy == totalBet - e.currentBet
        paid == [player EXCEPT !.chips = @ - additionalAmount,
                               !.totalBetThisRound = totalBet,
                               !.currentBet = totalBet,
                               !.isAllIn = IF player.chips - additionalAmount = 0
                                           THEN TRUE ELSE @]
    IN  log([e EXCEPT !.minRaise = IF raiseBy > @ THEN raiseBy ELSE @,
                      !.players[e.currentPlayerIndex + 1] = paid,
                      !.pot = @ + additionalAmount,
                      !.currentBet = totalBet,
                      !.lastRaiserIndex = e.currentPlayerIndex],
            IF paid.chips = 0 THEN "raises (ALL IN)" ELSE "raises")

\* a faulty ALL_IN: every all-in above the current bet reopens the betting
applyAllInAlwaysReopens(e) ==
    LET player == PlayerAt(e, e.currentPlayerIndex)
        allInAmount == player.chips
        newTotal == player.totalBetThisRound + allInAmount
        paid == [player EXCEPT !.chips = 0,
                               !.totalBetThisRound = newTotal,
                               !.currentBet = newTotal,
                               !.isAllIn = TRUE]
        raiseAmount == newTotal - e.currentBet
        reopened == newTotal > e.currentBet
    IN  log([e EXCEPT !.players[e.currentPlayerIndex + 1] = paid,
                      !.pot = @ + allInAmount,
                      !.lastRaiserIndex = IF reopened THEN e.currentPlayerIndex ELSE @,
                      !.minRaise = IF reopened THEN raiseAmount ELSE @,
                      !.currentBet = IF newTotal > @ THEN newTotal ELSE @],
            "goes ALL IN")

\* case ALL_IN
applyAllIn(e) ==
    LET player == PlayerAt(e, e.currentPlayerIndex)
        allInAmount == player.chips
        newTotal == player.totalBetThisRound + allInAmount
        paid == [player EXCEPT !.chips = 0,
                               !.totalBetThisRound = newTotal,
                               !.currentBet = newTotal,
                               !.isAllIn = TRUE]
        raiseAmount == newTotal - e.currentBet
        reopened == newTotal > e.currentBet /\ raiseAmount >= e.minRaise
    IN  log([e EXCEPT !.players[e.currentPlayerIndex + 1] = paid,
                      !.pot = @ + allInAmount,
                      !.lastRaiserIndex = IF reopened THEN e.currentPlayerIndex ELSE @,
                      !.minRaise = IF reopened THEN raiseAmount ELSE @,
                      !.currentBet = IF newTotal > @ THEN newTotal ELSE @],
            "goes ALL IN")

\* a faulty processAction: a check is logged before it is validated
processActionLogsCheckFirst(e, action, amount) ==
    IF \/ ~InRange(e, e.currentPlayerIndex)
       \/ PlayerAt(e, e.currentPlayerIndex).hasFolded
       \/ PlayerAt(e, e.currentPlayerIndex).isAllIn
    THEN <<FALSE, e>>
    ELSE LET player == PlayerAt(e, e.currentPlayerIndex)
             callAmount == e.currentBet - player.totalBetThisRound
         IN  CASE action = FOLD -> <<TRUE, applyFold(e)>>
               [] action = CHECK -> <<callAmount <= 0, log(e, "checks")>>
               [] action = CALL -> <<TRUE, applyCall(e)>>
               [] action \in {BET, RAISE} ->
                    IF raiseRejected(e, amount) THEN <<FALSE, e>>
                    ELSE <<TRUE, applyRaise(e, amount)>>
               [] action = ALL_IN -> <<TRUE, applyAllIn(e)>>
               [] OTHER -> <<FALSE, e>>

\* processAction(action, amount): <<returned value, engine>>
processAction(e, action, amount) ==
    IF \/ ~InRange(e, e.currentPlayerIndex)
       \/ PlayerAt(e, e.currentPlayerIndex).hasFolded
       \/ PlayerAt(e, e.currentPlayerIndex).isAllIn
    THEN <<FALSE, e>>
    ELSE LET player == PlayerAt(e, e.currentPlayerIndex)
             callAmount == e.currentBet - player.totalBetThisRound
         IN  CASE action = FOLD -> <<TRUE, applyFold(e)>>
               [] action = CHECK ->
                    IF callAmount > 0 THEN <<FALSE, e>>
                    ELSE <<TRUE, log(e, "checks")>>
               [] action = CALL -> <<TRUE, applyCall(e)>>
               [] action \in {BET, RAISE} ->
                    IF raiseRejected(e, amount) THEN <<FALSE, e>>
                    ELSE <<TRUE, applyRaise(e, amount)>>
               [] action = ALL_IN -> <<TRUE, applyAllIn(e)>>
               [] OTHER -> <<FALSE, e>>

\* ------------------------------------------------------------------------
\* PokerEngine: advance
\* ------------------------------------------------------------------------

CanAct(p) == ~p.hasFolded /\ ~p.isAllIn

\* a faulty payout: the remainder goes to the last winner
winnerAmountRemainderLast(e, winnerSeats, index) ==
    (e.pot \div Len(winnerSeats))
        + (IF index = Len(winnerSeats) THEN e.pot % Len(winnerSeats) ELSE 0)

\* handleWin: the amount paid to the winner at position index (from 1) of
\* winnerSeats
winnerAmount(e, winnerSeats, index) ==
    LET winAmount == e.pot \div Len(winnerSeats)
        remainder == e.pot % Len(winnerSeats)
    IN  winAmount + (IF index = 1 THEN remainder ELSE 0)

\* winner.chips += amount, for the winners from position index on
RECURSIVE payWinners(_, _, _, _)
payWinners(e, winnerSeats, ps, index) ==
    IF index > Len(winnerSeats) THEN ps
    ELSE payWinners(e, winnerSeats,
                    [ps EXCEPT ![winnerSeats[index] + 1].chips =
                                   @ + winnerAmount(e, winnerSeats, index)],
                    index + 1)

\* a faulty handleWin: the pot is paid out but not emptied
handleWinKeepsPot(e, winnerSeats) ==
    [e EXCEPT !.isHandComplete = TRUE,
              !.players = payWinners(e, winnerSeats, e.players, 1),
              !.gameLog = @ + Len(winnerSeats)]

\* a faulty handleWin: the hand is marked complete only when chips are paid
handleWinOnlyWhenPaid(e, winnerSeats) ==
    [e EXCEPT !.isHandComplete = e.pot > 0,
              !.players = payWinners(e, winnerSeats, e.players, 1),
              !.winners = [index \in 1..Len(winnerSeats) |->
                              [name |-> PlayerAt(e, winnerSeats[index]).name,
                               amount |-> winnerAmount(e, winnerSeats, index)]],
              !.gameLog = @ + Len(winnerSeats),
              !.pot = 0]

\* handleWin(winners): winners is a sequence of seats
handleWin(e, winnerSeats) ==
    [e EXCEPT !.isHandComplete = TRUE,
              !.players = payWinners(e, winnerSeats, e.players, 1),
              !.winners = [index \in 1..Len(winnerSeats) |->
                              [name |-> PlayerAt(e, winnerSeats[index]).name,
                               amount |-> winnerAmount(e, winnerSeats, index)]],
              !.gameLog = @ + Len(winnerSeats),
              !.pot = 0]

\* the seats 0 .. n - 1 in order
Seats(e) == [i \in 1..NumPlayers(e) |-> i - 1]

\* this.players.filter(p => !p.hasFolded), as seats
notFoldedSeats(e) == SelectSeq(Seats(e), LAMBDA seat : ~PlayerAt(e, seat).hasFolded)

\* this.players.filter(p => !p.hasFolded && !p.isAllIn), as seats
activeSeats(e) == SelectSeq(Seats(e), LAMBDA seat : CanAct(PlayerAt(e, seat)))

\* activePlayers.map(player => ({ player, hand: evaluateBestHand(...) })):
\* the first upTo of the seats, each with its best hand
RECURSIVE evaluateHands(_, _, _)
evaluateHands(e, seats, upTo) ==
    IF upTo = 0 THEN <<>>
    ELSE Append(evaluateHands(e, seats, upTo - 1),
                [player |-> seats[upTo],
                 hand |-> evaluateBestHand(PlayerAt(e, seats[upTo]).holeCards,
                                           e.communityCards)])

\* handResults.sort((a, b) => compareHands(b.hand, a.hand)): insertion sort,
\* stable, by descending hand
RECURSIVE insertByHand(_, _)
insertByHand(sorted, r) ==
    IF sorted = <<>> THEN <<r>>
    ELSE LET last == sorted[Len(sorted)]
         IN  IF compareHands(last.hand, r.hand) < 0
             THEN Append(insertByHand(SubSeq(sorted, 1, Len(sorted) - 1), r), last)
             ELSE Append(sorted, r)

RECURSIVE sortByHand(_, _)
sortByHand(results, upTo) ==
    IF upTo = 0 THEN <<>>
    ELSE insertByHand(sortByHand(results, upTo - 1), results[upTo])

\* the draws of Math.random() in shuffleDeck that are explored: rnd[i] is the
\* index j drawn at step i.  The first deck gives a single winner (seat 1 of
\* two, seat 2 of three), the second ties two players (both of two; seats 1
\* and 2 of three, ahead of seat 0).
RandomDraws ==
    { [i \in 1..51 |-> 17 % (i + 1)],
      <<1, 1, 3, 0, 2, 5, 0, 6, 9, 6, 0, 8, 0, 1, 2, 3, 4, 5, 6, 7, 8, 9, 10,
        13, 14, 15, 17, 18, 19, 21, 22, 24, 26, 28, 29, 30, 32, 34, 35, 36,
        37, 38, 39, 40, 42, 43, 44, 46, 49, 50, 51>> }

\* handleShowdown
handleShowdown(e) ==
    LET activePlayers == notFoldedSeats(e)
        handResults == sortByHand(evaluateHands(e, activePlayers, Len(activePlayers)),
                                  Len(activePlayers))
        RECURSIVE tied(_, _)
        tied(sorted, i) ==
            IF i <= Len(sorted) /\ compareHands(sorted[i].hand, sorted[1].hand) = 0
            THEN tied(sorted, i + 1) ELSE i - 1
        winnerSeats(sorted) == [i \in 1..tied(sorted, 2) |-> sorted[i].player]
    IN  handleWin(e, winnerSeats(handResults))

\* getNextActivePlayerIndex
RECURSIVE nextActiveFrom(_, _, _)
nextActiveFrom(e, index, count) ==
    IF count >= NumPlayers(e) THEN e.currentPlayerIndex
    ELSE IF CanAct(PlayerAt(e, index)) THEN index
    ELSE nextActiveFrom(e, (index + 1) % NumPlayers(e), count + 1)

\* a faulty getNextActivePlayerIndex: the next seat, whoever sits there
nextSeatOnly(e) == (e.currentPlayerIndex + 1) % NumPlayers(e)

getNextActivePlayerIndex(e) ==
    nextActiveFrom(e, (e.currentPlayerIndex + 1) % NumPlayers(e), 0)

bigBlindIndex(e) ==
    IF NumPlayers(e) = 2 THEN (e.dealerIndex + 1) % NumPlayers(e)
    ELSE (e.dealerIndex + 2) % NumPlayers(e)

\* a faulty isBettingRoundComplete: before the flop the round stays open as
\* long as the big blind is unraised and its player can act
isBettingRoundCompleteHoldsForBigBlind(e) ==
    LET activePlayers == activeSeats(e)
        notFolded == notFoldedSeats(e)
        matched(seat) == PlayerAt(e, seat).totalBetThisRound >= e.currentBet
        allMatched == \A i \in 1..Len(activePlayers) : matched(activePlayers[i])
        bb == PlayerAt(e, bigBlindIndex(e))
    IN  IF Len(activePlayers) = 0 THEN TRUE
        ELSE IF Len(activePlayers) = 1 /\ Len(notFolded) > 1 /\ matched(activePlayers[1])
          THEN TRUE
        ELSE IF ~allMatched THEN FALSE
        ELSE IF e.lastRaiserIndex >= 0 /\ e.currentPlayerIndex = e.lastRaiserIndex
          THEN TRUE
        ELSE IF e.lastRaiserIndex = -1 \/ e.phase = PREFLOP
          THEN IF /\ e.phase = PREFLOP
                  /\ ~bb.hasFolded /\ ~bb.isAllIn
                  /\ bb.totalBetThisRound = BigBlind
                  /\ e.currentBet = BigBlind
               THEN FALSE
               ELSE allMatched
        ELSE TRUE

isBettingRoundComplete(e) ==
    LET activePlayers == activeSeats(e)
        notFolded == notFoldedSeats(e)
        matched(seat) == PlayerAt(e, seat).totalBetThisRound >= e.currentBet
        allMatched == \A i \in 1..Len(activePlayers) : matched(activePlayers[i])
        bb == PlayerAt(e, bigBlindIndex(e))
    IN  IF Len(activePlayers) = 0 THEN TRUE
        ELSE IF Len(activePlayers) = 1 /\ Len(notFolded) > 1 /\ matched(activePlayers[1])
          THEN TRUE
        ELSE IF ~allMatched THEN FALSE
        ELSE IF e.lastRaiserIndex >= 0 /\ e.currentPlayerIndex = e.lastRaiserIndex
          THEN TRUE
        ELSE IF e.lastRaiserIndex = -1 \/ e.phase = PREFLOP
          THEN IF /\ e.phase = PREFLOP
                  /\ ~bb.hasFolded /\ ~bb.isAllIn
                  /\ bb.totalBetThisRound = BigBlind
                  /\ e.currentBet = BigBlind /\ e.lastRaiserIndex = -1
               THEN FALSE
               ELSE allMatched
        ELSE TRUE

\* a faulty advancePhase: the showdown is entered from the turn
advancePhaseHeadSkipsRiver(e) ==
    LET cleared == [e EXCEPT !.players = [i \in 1..NumPlayers(e) |->
                                   [e.players[i] EXCEPT !.totalBetThisRound = 0,
                                                        !.currentBet = 0]],
                             !.currentBet = 0,
                             !.minRaise = BigBlind,
                             !.lastRaiserIndex = -1]
        phases == <<PREFLOP, FLOP, TURN, RIVER, SHOWDOWN>>
        currentPhaseIndex == (CHOOSE i \in 1..5 : phases[i] = e.phase) - 1
    IN  IF currentPhaseIndex >= 2
        THEN handleShowdown([cleared EXCEPT !.phase = SHOWDOWN])
        ELSE LET dealtOut == dealCommunityCards(
                                 [cleared EXCEPT !.phase = phases[currentPhaseIndex + 2]])
             IN  [dealtOut EXCEPT !.currentPlayerIndex =
                                      (e.dealerIndex + 1) % NumPlayers(e)]

\* a faulty advancePhase: minRaise is carried over into the next round
advancePhaseHeadKeepsMinRaise(e) ==
    LET cleared == [e EXCEPT !.players = [i \in 1..NumPlayers(e) |->
                                   [e.players[i] EXCEPT !.totalBetThisRound = 0,
                                                        !.currentBet = 0]],
                             !.currentBet = 0,
                             !.lastRaiserIndex = -1]
        phases == <<PREFLOP, FLOP, TURN, RIVER, SHOWDOWN>>
        currentPhaseIndex == (CHOOSE i \in 1..5 : phases[i] = e.phase) - 1
    IN  IF currentPhaseIndex >= 3
        THEN handleShowdown([cleared EXCEPT !.phase = SHOWDOWN])
        ELSE LET dealtOut == dealCommunityCards(
                                 [cleared EXCEPT !.phase = phases[currentPhaseIndex + 2]])
             IN  [dealtOut EXCEPT !.currentPlayerIndex =
                                      (e.dealerIndex + 1) % NumPlayers(e)]

\* advancePhase, up to the loop that looks for the first player who can act:
\* the bets are reset, the phase moves and the community cards are dealt, or
\* the showdown is resolved
advancePhaseHead(e) ==
    LET cleared == [e EXCEPT !.players = [i \in 1..NumPlayers(e) |->
                                   [e.players[i] EXCEPT !.totalBetThisRound = 0,
                                                        !.currentBet = 0]],
                             !.currentBet = 0,
                             !.minRaise = BigBlind,
                             !.lastRaiserIndex = -1]
        phases == <<PREFLOP, FLOP, TURN, RIVER, SHOWDOWN>>
        currentPhaseIndex == (CHOOSE i \in 1..5 : phases[i] = e.phase) - 1
    IN  IF currentPhaseIndex >= 3
        THEN handleShowdown([cleared EXCEPT !.phase = SHOWDOWN])
        ELSE LET dealtOut == dealCommunityCards(
                                 [cleared EXCEPT !.phase = phases[currentPhaseIndex + 2]])
             IN  [dealtOut EXCEPT !.currentPlayerIndex =
                                      (e.dealerIndex + 1) % NumPlayers(e)]

\* one test of the loop condition of advancePhase
loopCondition(e) == ~CanAct(PlayerAt(e, e.currentPlayerIndex))

\* one iteration of the loop body of advancePhase
loopBody(e) ==
    [e EXCEPT !.currentPlayerIndex = (@ + 1) % NumPlayers(e)]

\* the loop of advancePhase run to its exit; used only when some player can
\* act, so that at most NumPlayers iterations are made
RECURSIVE findFirstActive(_)
findFirstActive(e) ==
    IF loopCondition(e) THEN findFirstActive(loopBody(e)) ELSE e

\* the loop of advancePhase has an exit
loopExits(e) == \E seat \in 0..(NumPlayers(e) - 1) : CanAct(PlayerAt(e, seat))

\* advance(): [e: the engine when advance returns or enters the loop of
\* advancePhase without an exit, returns: whether it returns,
\* isHandComplete, phaseChanged: the fields of the returned object]
advance(e) ==
    LET activePlayers == notFoldedSeats(e)
        moved == [e EXCEPT !.currentPlayerIndex = getNextActivePlayerIndex(e)]
    IN  IF Len(activePlayers) = 1
        THEN [e |-> handleWin(e, <<activePlayers[1]>>), returns |-> TRUE,
              isHandComplete |-> TRUE, phaseChanged |-> FALSE]
        ELSE IF ~isBettingRoundComplete(moved)
        THEN [e |-> moved, returns |-> TRUE,
              isHandComplete |-> FALSE, phaseChanged |-> FALSE]
        ELSE LET head == advancePhaseHead(moved)
             IN  IF head.phase = SHOWDOWN
                 THEN [e |-> head, returns |-> TRUE,
                       isHandComplete |-> TRUE, phaseChanged |-> FALSE]
                 ELSE IF loopExits(head)
                 THEN [e |-> findFirstActive(head), returns |-> TRUE,
                       isHandComplete |-> FALSE, phaseChanged |-> TRUE]
                 ELSE [e |-> head, returns |-> FALSE,
                       isHandComplete |-> FALSE, phaseChanged |-> FALSE]

\* ------------------------------------------------------------------------
\* The engine driven by the game controller
\* ------------------------------------------------------------------------

Actions == {FOLD, CHECK, CALL, BET, RAISE, ALL_IN, "unknown"}

\* amounts submitted with BET and RAISE: around the smallest legal raise,
\* the acting player's whole stack, one above it, and a negative one
Amounts ==
    IF InRange(Engine, currentPlayerIndex)
    THEN LET player == PlayerAt(Engine, currentPlayerIndex)
         IN  {-1, currentBet + minRaise - 1, currentBet + minRaise,
              currentBet + minRaise + 1,
              player.totalBetThisRound + player.chips,
              player.totalBetThisRound + player.chips + 1}
    ELSE {-1, BigBlind}

NoResult ==
    [op |-> "none", ok |-> FALSE, action |-> "none",
     isHandComplete |-> FALSE, phaseChanged |-> FALSE]

Init ==
    /\ \E stacks \in StartingStacks :
          Install_0(PokerEngine([i \in 1..Len(stacks) |-> NewPlayer(i, stacks[i])]))
    /\ pc = "idle"
    /\ result = NoResult
    /\ hands = 0
    /\ after = 0
    /\ handStart = -1
    /\ acted = {}
    /\ evalOp = "none"
    /\ evalCards = <<>>
    /\ evalHand = NoHand
    /\ evalOther = NoHand
    /\ evalResult = 0

\* PokerGame.startHand, at the start of the match
StartNewHand ==
    /\ pc = "idle"
    /\ hands = 0
    /\ \E rnd \in RandomDraws :
          \E r \in {startNewHand(Engine, rnd)} :
              /\ Install(r[2])
              /\ result' = [NoResult EXCEPT !.op = "startNewHand", !.ok = r[1]]
              /\ handStart' = IF r[1] THEN SumChips(players) ELSE -1
    /\ hands' = hands + 1
    /\ acted' = {}
    /\ UNCHANGED <<pc, after>>
    /\ UNCHANGED evalVars

\* PokerGame.handleHandComplete: when the hand is complete and neither the
\* human player (the first player of the match) nor every bot is out of
\* chips, the engine gets the human player and the bots that have chips, and
\* the next hand is started
StartNextHand ==
    /\ pc = "idle"
    /\ hands > 0
    /\ hands < MaxHands
    /\ isHandComplete
    /\ result.op \in {"advance", "handleHumanAction", "processBotAction"}
    /\ after = 0
    /\ \E i \in 1..Len(players) : players[i].name = 1 /\ players[i].chips > 0
    /\ \E i \in 1..Len(players) : players[i].name # 1 /\ players[i].chips > 0
    /\ \E rnd \in RandomDraws :
          \E r \in {startNewHand([Engine EXCEPT !.players = removeBusted(players)],
                                  rnd)} :
              /\ Install(r[2])
              /\ result' = [NoResult EXCEPT !.op = "startNewHand", !.ok = r[1]]
              /\ handStart' = IF r[1] THEN SumChips(players) ELSE -1
    /\ hands' = hands + 1
    /\ acted' = {}
    /\ after' = 0
    /\ UNCHANGED pc
    /\ UNCHANGED evalVars

\* PokerGame.processBotAction, handleHumanAction: one action is submitted for
\* the acting player, then advance is called
ProcessAction(action, amount) ==
    /\ pc = "idle"
    /\ hands > 0
    /\ hands <= PlayedHands
    /\ result.op # "processAction"
    /\ isHandComplete => after < MaxAfter
    /\ after' = IF isHandComplete THEN after + 1 ELSE after
    /\ \E r \in {processAction(Engine, action, amount)} :
           /\ r[2].gameLog <= MaxLog
           /\ Install(r[2])
           /\ result' = [NoResult EXCEPT !.op = "processAction", !.ok = r[1],
                                         !.action = action]
           /\ acted' = IF r[1] THEN acted \cup {currentPlayerIndex} ELSE acted
    /\ UNCHANGED <<pc, hands, handStart>>
    /\ UNCHANGED evalVars

\* the driver calls advance
Advance ==
    /\ pc = "idle"
    /\ hands > 0
    /\ hands <= PlayedHands
    /\ isHandComplete => after < MaxAfter
    /\ after' = IF isHandComplete THEN after + 1 ELSE after
    /\ \E a \in {advance(Engine)} :
           /\ a.e.gameLog <= MaxLog
           /\ Install(a.e)
           /\ pc' = IF a.returns THEN "idle" ELSE "advancePhase"
           /\ result' = [NoResult EXCEPT !.op = "advance", !.ok = a.returns,
                                         !.isHandComplete = a.isHandComplete,
                                         !.phaseChanged = a.phaseChanged]
           /\ acted' = IF a.e.phase # phase THEN {} ELSE acted
    /\ UNCHANGED <<hands, handStart>>
    /\ UNCHANGED evalVars

\* a call of advance that is inside the loop of advancePhase makes one more
\* iteration; it gets here only when no player can act
AdvancePhaseLoop ==
    /\ pc = "advancePhase"
    /\ loopCondition(Engine)
    /\ Install(loopBody(Engine))
    /\ UNCHANGED <<pc, result, hands, after, handStart, acted>>
    /\ UNCHANGED evalVars

Next ==
    \/ StartNewHand
    \/ StartNextHand
    \/ \E action \in Actions :
         \E amount \in (IF action \in {BET, RAISE} THEN Amounts ELSE {0}) :
            ProcessAction(action, amount)
    \/ Advance
    \/ AdvancePhaseLoop

Spec == Init /\ [][Next]_vars

\* ------------------------------------------------------------------------
\* The game controller's loop (PokerGame.processNextAction): for the acting
\* player it submits an action the engine accepts, or nothing when that
\* player is folded or all-in, and then calls advance, until the hand is
\* complete
\* ------------------------------------------------------------------------

ActingPlayerCanAct ==
    InRange(Engine, currentPlayerIndex) /\ CanAct(PlayerAt(Engine, currentPlayerIndex))

DriverAct ==
    /\ ~isHandComplete
    /\ ActingPlayerCanAct
    /\ \E action \in Actions :
         \E amount \in (IF action \in {BET, RAISE} THEN Amounts ELSE {0}) :
            ProcessAction(action, amount) /\ result'.ok

DriverAdvance ==
    /\ ~isHandComplete
    /\ result.op = "processAction" \/ ~ActingPlayerCanAct
    /\ Advance

DriverNext ==
    \/ StartNewHand
    \/ StartNextHand
    \/ DriverAct
    \/ DriverAdvance
    \/ AdvancePhaseLoop

DriverSpec == Init /\ [][DriverNext]_vars

\* ------------------------------------------------------------------------
\* The game controller (PokerGame): the human player is the first player of
\* the match, the other players are bots
\* ------------------------------------------------------------------------

ActingPlayerIsHuman ==
    InRange(Engine, currentPlayerIndex) /\ PlayerAt(Engine, currentPlayerIndex).name = 1

\* processBotAction, handleHumanAction from the call of processAction on:
\* the action is submitted, then advance is called, whatever processAction
\* returned; ok records what processAction returned
GameAction(op, action, amount) ==
    /\ pc = "idle"
    /\ handStart >= 0
    /\ hands <= PlayedHands
    /\ ~isHandComplete
    /\ ActingPlayerCanAct
    /\ \E r \in {processAction(Engine, action, amount)} :
          \E a \in {advance(r[2])} :
              /\ a.e.gameLog <= MaxLog
              /\ Install(a.e)
              /\ pc' = IF a.returns THEN "idle" ELSE "advancePhase"
              /\ result' = [op |-> op, ok |-> r[1], action |-> action,
                            isHandComplete |-> a.isHandComplete,
                            phaseChanged |-> a.phaseChanged]
              /\ acted' = IF a.e.phase # phase THEN {}
                          ELSE IF r[1] THEN acted \cup {currentPlayerIndex}
                          ELSE acted
    /\ UNCHANGED <<hands, after, handStart>>
    /\ UNCHANGED evalVars

\* handleHumanAction(action, amount), called while the controller waits for
\* the human player
HandleHumanAction ==
    /\ ActingPlayerIsHuman
    /\ \E action \in Actions :
         \E amount \in (IF action \in {BET, RAISE} THEN Amounts ELSE {0}) :
            GameAction("handleHumanAction", action, amount)

\* what bot.decide returns: fold, call, or raise with an amount
BotDecisions ==
    LET bot == PlayerAt(Engine, currentPlayerIndex)
    IN  { [action |-> "fold", amount |-> 0], [action |-> "call", amount |-> 0] }
          \cup { [action |-> "raise", amount |-> x] :
                    x \in { Min(minRaise * 2, bot.chips),
                            Min((pot * 3) \div 4, bot.chips) } }

\* processBotAction(bot): the decision is turned into CHECK or CALL, into a
\* RAISE to at least currentBet + minRaise and at most the bot's stack, or
\* into FOLD
ProcessBotAction ==
    /\ InRange(Engine, currentPlayerIndex)
    /\ ~ActingPlayerIsHuman
    /\ \E decision \in BotDecisions :
          LET bot == PlayerAt(Engine, currentPlayerIndex)
              callAmount == currentBet - bot.totalBetThisRound
              wanted == bot.totalBetThisRound + decision.amount
              atLeast == IF wanted < currentBet + minRaise
                         THEN currentBet + minRaise ELSE wanted
              capped == IF atLeast > bot.totalBetThisRound + bot.chips
                        THEN bot.totalBetThisRound + bot.chips ELSE atLeast
          IN  IF decision.action = "call"
              THEN GameAction("processBotAction",
                              IF callAmount = 0 THEN CHECK ELSE CALL, 0)
              ELSE IF decision.action = "raise"
              THEN GameAction("processBotAction", RAISE, capped)
              ELSE GameAction("processBotAction", FOLD, 0)

\* processNextAction when the acting player is folded or all-in: advance is
\* called
ProcessNextAction ==
    /\ handStart >= 0
    /\ ~isHandComplete
    /\ ~ActingPlayerCanAct
    /\ Advance

GameNext ==
    \/ StartNewHand
    \/ StartNextHand
    \/ HandleHumanAction
    \/ ProcessBotAction
    \/ ProcessNextAction
    \/ AdvancePhaseLoop

GameSpec == Init /\ [][GameNext]_vars

\* ------------------------------------------------------------------------
\* The engine with startNewHand called at any time
\* ------------------------------------------------------------------------

\* startNewHand called while a hand is in progress
StartNewHandMidHand ==
    /\ pc = "idle"
    /\ hands > 0
    /\ hands < MaxHands
    /\ handStart >= 0
    /\ ~isHandComplete
    /\ \E rnd \in RandomDraws :
          \E r \in {startNewHand(Engine, rnd)} :
              /\ Install(r[2])
              /\ result' = [NoResult EXCEPT !.op = "startNewHand", !.ok = r[1]]
              /\ handStart' = IF r[1] THEN SumChips(players) ELSE -1
    /\ hands' = hands + 1
    /\ acted' = {}
    /\ after' = 0
    /\ UNCHANGED pc
    /\ UNCHANGED evalVars

ApiNext ==
    \/ Next
    \/ StartNewHandMidHand

ApiSpec == Init /\ [][ApiNext]_vars

\* ------------------------------------------------------------------------
\* The hand evaluator called on its own: hands drawn from a part of the deck
\* are evaluated and compared
\* ------------------------------------------------------------------------

\* the card of the given value (2..14) and suit (0..3)
Card(value, suit) == suit * 13 + value - 2

\* the cards the evaluated hands are drawn from: the first suit has the
\* values 2-6 and 10-A, the second 2, 3 and A, the third 2 and A, the fourth A
EvalDeck ==
    { Card(v, 0) : v \in {2, 3, 4, 5, 6, 10, 11, 12, 13, 14} }
        \cup { Card(2, 1), Card(3, 1), Card(14, 1) }
        \cup { Card(2, 2), Card(14, 2), Card(14, 3) }

\* a set of cards as an array, in ascending order of the card numbers
RECURSIVE ArrayOf(_)
ArrayOf(S) ==
    IF S = {} THEN <<>>
    ELSE LET least == CHOOSE c \in S : \A d \in S : c <= d
         IN  <<least>> \o ArrayOf(S \ {least})

\* every hand of five cards of EvalDeck
FiveCardHands == { ArrayOf(S) : S \in { T \in SUBSET EvalDeck : Cardinality(T) = 5 } }

\* the community cards handed to evaluateBestHand: three aces with 2 and 3,
\* four cards to a straight flush with a king, three cards to a royal flush
\* with 2 and 3, and boards of four, three, two and no cards
EvalBoards ==
    { <<Card(14, 0), Card(14, 1), Card(14, 2), Card(2, 0), Card(3, 0)>>,
      <<Card(2, 0), Card(3, 0), Card(4, 0), Card(5, 0), Card(13, 0)>>,
      <<Card(10, 0), Card(11, 0), Card(12, 0), Card(2, 1), Card(3, 1)>>,
      <<Card(2, 0), Card(2, 1), Card(2, 2), Card(14, 0)>>,
      <<Card(10, 0), Card(11, 0), Card(12, 0)>>,
      <<Card(2, 0), Card(3, 0)>>,
      <<>> }

\* the hole cards that can go with a board: two cards that are not on it
HoleCardsFor(board) ==
    { ArrayOf(S) : S \in { T \in SUBSET (EvalDeck \ { board[i] : i \in 1..Len(board) }) :
                              Cardinality(T) = 2 } }

\* the hands a hand value is compared to: one or more of every category,
\* among them the wheel, the six-high and the ace-high straight, the
\* five-high straight flush, and pairs of hands that tie
CompareSamples ==
    { <<Card(10, 0), Card(11, 0), Card(12, 0), Card(13, 0), Card(14, 0)>>,
      <<Card(2, 0), Card(3, 0), Card(4, 0), Card(5, 0), Card(6, 0)>>,
      <<Card(2, 0), Card(3, 0), Card(4, 0), Card(5, 0), Card(14, 0)>>,
      <<Card(14, 0), Card(14, 1), Card(14, 2), Card(14, 3), Card(13, 0)>>,
      <<Card(14, 0), Card(14, 1), Card(14, 2), Card(2, 0), Card(2, 1)>>,
      <<Card(2, 0), Card(2, 1), Card(2, 2), Card(14, 0), Card(14, 1)>>,
      <<Card(2, 0), Card(4, 0), Card(6, 0), Card(10, 0), Card(13, 0)>>,
      <<Card(2, 1), Card(3, 0), Card(4, 0), Card(5, 0), Card(6, 0)>>,
      <<Card(2, 0), Card(3, 1), Card(4, 0), Card(5, 0), Card(14, 0)>>,
      <<Card(2, 0), Card(3, 0), Card(4, 0), Card(5, 0), Card(14, 1)>>,
      <<Card(10, 0), Card(11, 0), Card(12, 0), Card(13, 0), Card(14, 1)>>,
      <<Card(14, 0), Card(14, 1), Card(14, 2), Card(13, 0), Card(2, 0)>>,
      <<Card(14, 0), Card(14, 1), Card(2, 0), Card(2, 1), Card(13, 0)>>,
      <<Card(14, 2), Card(14, 3), Card(2, 1), Card(2, 2), Card(13, 0)>>,
      <<Card(14, 0), Card(14, 1), Card(3, 0), Card(3, 1), Card(2, 0)>>,
      <<Card(3, 0), Card(3, 1), Card(14, 0), Card(13, 0), Card(2, 0)>>,
      <<Card(3, 0), Card(3, 1), Card(14, 0), Card(13, 0), Card(4, 0)>>,
      <<Card(14, 1), Card(13, 0), Card(12, 0), Card(11, 0), Card(2, 0)>>,
      <<Card(14, 2), Card(13, 0), Card(12, 0), Card(11, 0), Card(3, 0)>> }

engineVars ==
    <<players, pot, communityCards, deck, phase, currentBet, minRaise,
      dealerIndex, currentPlayerIndex, lastRaiserIndex, gameLog,
      isHandComplete, winners, pc, result, hands, after, handStart, acted>>

\* no match is being played and the evaluator has not been called
EvalInit ==
    /\ Install_0(PokerEngine(<<>>))
    /\ pc = "idle"
    /\ result = NoResult
    /\ hands = 0
    /\ after = 0
    /\ handStart = -1
    /\ acted = {}
    /\ evalOp = "none"
    /\ evalCards = <<>>
    /\ evalHand = NoHand
    /\ evalOther = NoHand
    /\ evalResult = 0

\* evaluate5CardHand(cards)
Evaluate5CardHand ==
    /\ evalOp = "none"
    /\ \E cards \in FiveCardHands :
          /\ evalCards' = cards
          /\ evalHand' = evaluate5CardHand(cards)
    /\ evalOp' = "evaluate5CardHand"
    /\ UNCHANGED <<evalOther, evalResult>>
    /\ UNCHANGED engineVars

\* evaluateBestHand(holeCards, communityCards)
EvaluateBestHand ==
    /\ evalOp = "none"
    /\ \E board \in EvalBoards :
          \E holeCards \in HoleCardsFor(board) :
              /\ evalCards' = holeCards \o board
              /\ evalHand' = evaluateBestHand(holeCards, board)
    /\ evalOp' = "evaluateBestHand"
    /\ UNCHANGED <<evalOther, evalResult>>
    /\ UNCHANGED engineVars

\* compareHands(hand1, hand2): the hand value just returned is compared with
\* the value of another hand
CompareHands ==
    /\ evalOp \in {"evaluate5CardHand", "evaluateBestHand"}
    /\ evalHand # NoHand
    /\ \E cards \in CompareSamples :
          /\ evalCards' = cards
          /\ evalHand' = evaluate5CardHand(cards)
          /\ evalOther' = evalHand
          /\ evalResult' = compareHands(evalHand, evaluate5CardHand(cards))
    /\ evalOp' = "compareHands"
    /\ UNCHANGED engineVars

EvalNext ==
    \/ Evaluate5CardHand
    \/ EvaluateBestHand
    \/ CompareHands

EvalSpec == EvalInit /\ [][EvalNext]_vars

\* ------------------------------------------------------------------------
\* Properties
\* ------------------------------------------------------------------------

\* the step is a call of advance made while no call is in progress
AdvanceCalled == pc = "idle" /\ hands > 0 /\ result'.op = "advance"

\* C1: from the moment startNewHand returns true, after every call of
\* processAction and of advance the players' stacks plus the pot add up to
\* the sum of the stacks just before the blinds were posted.
C1_ChipsConserved ==
    handStart >= 0 => SumChips(players) + pot = handStart

\* a hand that ended with a pot larger than the blinds being paid out
C1_Witness ==
    /\ handStart >= 0
    /\ result.op = "advance" /\ result.isHandComplete
    /\ pot = 0
    /\ Len(winners) > 0
    /\ winners[1].amount > BigBlind + smallBlind

\* C2: a call of processAction that returns false leaves every field of the
\* engine and of its players unchanged, the event log included.
C2_RejectedChangesNothing ==
    [][(result'.op = "processAction" /\ ~result'.ok)
          => UNCHANGED <<players, pot, communityCards, deck, phase, currentBet,
                         minRaise, dealerIndex, currentPlayerIndex,
                         lastRaiserIndex, gameLog, isHandComplete, winners>>]_vars

\* a raise of a player who can act was rejected for its amount
C2_Witness ==
    /\ result.op = "processAction" /\ ~result.ok
    /\ result.action = RAISE
    /\ ~isHandComplete
    /\ ActingPlayerCanAct
    /\ pot > 0

\* C3: preflop, when nobody has raised and the big blind can still act, the
\* betting round does not complete (the flop is not dealt) before the big
\* blind has acted.
C3_BigBlindActsBeforeFlop ==
    [][(/\ phase = PREFLOP /\ phase' = FLOP
        /\ handStart >= 0
        /\ currentBet = BigBlind
        /\ lastRaiserIndex = bigBlindIndex(Engine)
        /\ CanAct(PlayerAt(Engine, bigBlindIndex(Engine)))
        /\ \A i \in 1..Len(players) : ~players[i].isAllIn)
          => bigBlindIndex(Engine) \in acted]_vars

\* C4: on the flop, turn or river, while nobody has bet, an accepted action
\* followed by advance does not end the betting round as long as a player
\* who can act has not acted yet.
C4_RoundWaitsForEveryPlayer ==
    [][(/\ AdvanceCalled
        /\ phase \in {FLOP, TURN, RIVER}
        /\ ~isHandComplete
        /\ result.op = "processAction" /\ result.ok
        /\ currentBet = 0 /\ lastRaiserIndex = -1
        /\ \E seat \in 0..(Len(players) - 1) :
               CanAct(players[seat + 1]) /\ seat \notin acted)
          => phase' = phase]_vars

\* C5: a short all-in does not reopen the action: the player who made the
\* last full raise and now faces an increase smaller than the minimum raise
\* has every BET or RAISE above the current bet rejected.
C5_ShortAllInDoesNotReopen ==
    [][(/\ pc = "idle"
        /\ ~isHandComplete
        /\ ActingPlayerCanAct
        /\ currentPlayerIndex = lastRaiserIndex
        /\ currentPlayerIndex \in acted
        /\ PlayerAt(Engine, currentPlayerIndex).totalBetThisRound < currentBet
        /\ currentBet - PlayerAt(Engine, currentPlayerIndex).totalBetThisRound
              < minRaise
        /\ result'.op = "processAction"
        /\ result'.action \in {BET, RAISE})
          => ~(result'.ok /\ currentBet' > currentBet)]_vars

\* C6: every call of advance made during a hand returns: the search of
\* advancePhase for a player who is neither folded nor all-in is never
\* entered without such a player.
C6_AdvanceReturns ==
    (handStart >= 0 /\ pc = "advancePhase") => loopExits(Engine)

\* C7: under the controller's loop every hand started by a successful
\* startNewHand runs to completion: as long as the hand is not complete the
\* controller is at a point where it makes its next call, and no call of
\* advance is left that never returns.
C7_HandRunsToCompletion ==
    (handStart >= 0 /\ ~isHandComplete) => pc = "idle"

\* C8: when advance has returned with isHandComplete false, the acting
\* player is neither folded nor all-in.
C8_ActingPlayerCanAct ==
    (pc = "idle" /\ result.op = "advance" /\ ~result.isHandComplete)
        => ActingPlayerCanAct

\* advance changed the phase and skipped the seat after the dealer, whose
\* player is all-in or folded
C8_Witness ==
    /\ pc = "idle" /\ result.op = "advance" /\ ~result.isHandComplete
    /\ result.phaseChanged
    /\ ~CanAct(PlayerAt(Engine, (dealerIndex + 1) % Len(players)))

\* C9: the showdown pays the whole pot to the non-folded players whose best
\* hand compares equal to the best one: each gets floor(pot / k), the first
\* of them in seat order also gets pot mod k, nobody else's stack changes
\* and the pot is 0 afterwards.
C9_ShowdownSplitsWholePot ==
    [][(/\ AdvanceCalled
        /\ result'.isHandComplete
        /\ phase' = SHOWDOWN
        /\ Len(notFoldedSeats(Engine)) >= 2)
          => LET seats == notFoldedSeats(Engine)
                 hand == evaluateHands(Engine, seats, Len(seats))
                 best == SelectSeq(hand, LAMBDA r :
                             \A j \in 1..Len(hand) :
                                 compareHands(r.hand, hand[j].hand) >= 0)
                 k == Len(best)
                 share(seat) ==
                     IF \E i \in 1..k : best[i].player = seat
                     THEN (pot \div k) + (IF best[1].player = seat THEN pot % k ELSE 0)
                     ELSE 0
             IN  /\ k >= 1
                 /\ pot' = 0
                 /\ Len(players') = Len(players)
                 /\ \A seat \in 0..(Len(players) - 1) :
                        players'[seat + 1].chips = players[seat + 1].chips + share(seat)]_vars

\* a showdown among three players, two of them tied with an odd pot: the
\* earlier seat got the odd chip
C9_Witness ==
    /\ result.op = "advance" /\ result.isHandComplete
    /\ phase = SHOWDOWN
    /\ Len(players) = 3
    /\ Len(winners) = 2
    /\ winners[1].name < winners[2].name
    /\ winners[1].amount = winners[2].amount + 1

\* C10: when advance is called and exactly one player has not folded, that
\* player receives the whole pot, the pot becomes 0, the hand is complete,
\* no community card is dealt and the phase stays as it is.
C10_LastPlayerTakesPot ==
    [][(AdvanceCalled /\ Len(notFoldedSeats(Engine)) = 1)
          => LET seat == notFoldedSeats(Engine)[1]
             IN  /\ players' = [players EXCEPT ![seat + 1].chips = @ + pot]
                 /\ pot' = 0
                 /\ isHandComplete'
                 /\ communityCards' = communityCards
                 /\ deck' = deck
                 /\ phase' = phase]_vars

\* on the flop everybody but one player folded and advance paid the pot
C10_Witness ==
    /\ result.op = "advance" /\ result.isHandComplete
    /\ phase = FLOP /\ Len(communityCards) = 3
    /\ Len(notFoldedSeats(Engine)) = 1
    /\ Len(players) = 3
    /\ pot = 0
    /\ Len(winners) = 1 /\ winners[1].amount > 0

\* C11: startNewHand returns false exactly when fewer than two players have
\* chips left; a failed start posts no blind, deals no card to any player,
\* leaves the stack of every remaining player as it was and does not move the
\* dealer button.  Otherwise it returns true.
fundedBefore == { i \in 1..Len(players) : players[i].chips > 0 }

C11_StartFailsWithoutTwoFunded ==
    [][result'.op = "startNewHand" =>
          /\ result'.ok <=> Cardinality(fundedBefore) >= 2
          /\ ~result'.ok =>
                /\ pot' = 0
                /\ dealerIndex' = dealerIndex
                /\ \A j \in 1..Len(players') :
                       /\ players'[j].holeCards = <<>>
                       /\ players'[j].totalBetThisRound = 0
                       /\ \E i \in fundedBefore :
                              /\ players[i].name = players'[j].name
                              /\ players[i].chips = players'[j].chips]_vars

\* a start that failed: one player has no chips
C11_Witness ==
    /\ result.op = "startNewHand"
    /\ ~result.ok
    /\ Len(players) = 1
    /\ pot = 0

\* C12: after a successful startNewHand with n players and dealer seat d, the
\* small blind is posted by seat d+1, the big blind by seat d+2 and seat d+3
\* acts first (all modulo n); with two players the dealer posts the small
\* blind and acts first, the other player posts the big blind.  The small
\* blind is floor(bigBlind / 2), each blind is capped at the poster's stack
\* and the pot is the sum of the two posted amounts.
chipsBefore(name) ==
    players[CHOOSE i \in 1..Len(players) : players[i].name = name].chips

C12_BlindsAndFirstActor ==
    [][(result'.op = "startNewHand" /\ result'.ok) =>
          LET n == Len(players')
              d == dealerIndex'
              sb == IF n = 2 THEN d ELSE (d + 1) % n
              bb == IF n = 2 THEN (d + 1) % n ELSE (d + 2) % n
              first == IF n = 2 THEN d ELSE (d + 3) % n
              sbPosted == Min(BigBlind \div 2, chipsBefore(players'[sb + 1].name))
              bbPosted == Min(BigBlind, chipsBefore(players'[bb + 1].name))
          IN  /\ n >= 2
              /\ currentPlayerIndex' = first
              /\ players'[sb + 1].totalBetThisRound = sbPosted
              /\ players'[bb + 1].totalBetThisRound = bbPosted
              /\ pot' = sbPosted + bbPosted
              /\ \A j \in 1..n :
                     players'[j].chips =
                         chipsBefore(players'[j].name) - players'[j].totalBetThisRound
              /\ \A j \in 1..n :
                     j \notin {sb + 1, bb + 1} => players'[j].totalBetThisRound = 0]_vars

\* a hand started at a table of three: the seat after the big blind acts first
C12_Witness ==
    /\ result.op = "startNewHand"
    /\ result.ok
    /\ Len(players) = 3
    /\ currentPlayerIndex = (dealerIndex + 3) % 3
    /\ players[((dealerIndex + 2) % 3) + 1].totalBetThisRound = BigBlind
    /\ pot = BigBlind + BigBlind \div 2

\* C13: the number of community cards is determined by the phase: 0 preflop,
\* 3 on the flop, 4 on the turn, 5 on the river and at the showdown, in every
\* reachable state, also after a hand ended early by folds and after further
\* calls of advance.
cardsOnBoard(ph) ==
    IF ph = PREFLOP THEN 0
    ELSE IF ph = FLOP THEN 3
    ELSE IF ph = TURN THEN 4
    ELSE 5

C13_BoardMatchesPhase ==
    /\ phase \in {PREFLOP, FLOP, TURN, RIVER, SHOWDOWN}
    /\ Len(communityCards) = cardsOnBoard(phase)

\* a hand that ended by folds on the flop, after a further call of advance
C13_Witness ==
    /\ isHandComplete
    /\ phase = FLOP
    /\ Len(communityCards) = 3
    /\ result.op = "advance"
    /\ after >= 1
    /\ pot = 0
    /\ winners # <<>>

\* C14: while a hand is being played, no call of processAction, accepted or
\* rejected, and no call of advance that leaves the phase unchanged lowers
\* any player's totalBetThisRound; a call of advance that changes the phase
\* sets it to 0 for every player.
C14_RoundBetsOnlyGrow ==
    [][(handStart >= 0 /\ ~isHandComplete /\ pc = "idle"
            /\ result'.op \in {"processAction", "advance"}) =>
          IF phase' = phase
          THEN \A i \in 1..Len(players) :
                  players'[i].totalBetThisRound >= players[i].totalBetThisRound
          ELSE \A i \in 1..Len(players') :
                  players'[i].totalBetThisRound = 0]_vars

\* C15: while a hand is being played currentBet is the highest bet committed
\* in the round: no player's totalBetThisRound exceeds it, and no accepted
\* action lowers it.
C15_CurrentBetIsHighest ==
    [][(handStart >= 0 /\ ~isHandComplete /\ pc = "idle"
            /\ result'.op = "processAction" /\ result'.ok) =>
          /\ currentBet' >= currentBet
          /\ \A i \in 1..Len(players') :
                 players'[i].totalBetThisRound <= currentBet']_vars

\* C16: a BET or RAISE to the total amount, submitted for a player who is
\* neither folded nor all-in, is accepted if and only if amount minus the
\* player's totalBetThisRound is at most the stack and either amount is at
\* least currentBet + minRaise or the difference is the whole stack; every
\* other amount, negative ones included, is rejected.
C16_RaiseAcceptedIff ==
    [][\A action \in {BET, RAISE} : \A amount \in Amounts :
          (/\ ActingPlayerCanAct
           /\ ProcessAction(action, amount)) =>
             LET player == PlayerAt(Engine, currentPlayerIndex)
                 increase == amount - player.totalBetThisRound
             IN  result'.ok <=>
                    /\ increase <= player.chips
                    /\ \/ amount >= currentBet + minRaise
                       \/ increase = player.chips]_vars

\* a raise below the minimum was accepted because it was the whole stack
C16_Witness ==
    /\ result.op = "processAction"
    /\ result.action \in {BET, RAISE}
    /\ result.ok
    /\ phase = PREFLOP
    /\ PlayerAt(Engine, currentPlayerIndex).isAllIn
    /\ currentBet > BigBlind
    /\ currentBet < BigBlind + BigBlind

\* C17: an accepted BET or RAISE to the total amount moves amount minus the
\* player's totalBetThisRound from the player's stack to the pot, sets the
\* player's totalBetThisRound and currentBet and the table's currentBet to
\* amount, sets minRaise to the larger of the old minRaise and amount minus
\* the old currentBet, records the player as the last raiser and marks the
\* player all-in exactly when the stack reaches 0; nothing else of any
\* player changes.
C17_AcceptedRaiseEffects ==
    [][\A action \in {BET, RAISE} : \A amount \in Amounts :
          (ProcessAction(action, amount) /\ result'.ok) =>
             LET seat == currentPlayerIndex + 1
                 player == players[seat]
                 increase == amount - player.totalBetThisRound
                 raiseBy == amount - currentBet
             IN  /\ players' = [players EXCEPT ![seat] =
                        [player EXCEPT !.chips = player.chips - increase,
                                       !.totalBetThisRound = amount,
                                       !.currentBet = amount,
                                       !.isAllIn = (player.chips - increase = 0)]]
                 /\ pot' = pot + increase
                 /\ currentBet' = amount
                 /\ minRaise' = IF raiseBy > minRaise THEN raiseBy ELSE minRaise
                 /\ lastRaiserIndex' = currentPlayerIndex]_vars

\* a raise by more than the minimum was accepted and left chips behind
C17_Witness ==
    /\ result.op = "processAction"
    /\ result.action = RAISE
    /\ result.ok
    /\ lastRaiserIndex = currentPlayerIndex
    /\ minRaise > BigBlind
    /\ currentBet = PlayerAt(Engine, currentPlayerIndex).totalBetThisRound
    /\ PlayerAt(Engine, currentPlayerIndex).chips > 0

\* C18: an accepted ALL_IN moves the player's whole stack to the pot and
\* marks the player all-in.  A new total that exceeds currentBet by at least
\* minRaise makes the player the last raiser and that excess the new
\* minRaise; a new total that exceeds currentBet by less raises currentBet
\* only; a new total that does not exceed currentBet leaves currentBet,
\* minRaise and lastRaiserIndex as they were.
C18_AllInEffects ==
    [][(result'.op = "processAction" /\ result'.action = ALL_IN /\ result'.ok) =>
          LET seat == currentPlayerIndex + 1
              player == players[seat]
              newTotal == player.totalBetThisRound + player.chips
              excess == newTotal - currentBet
          IN  /\ players' = [players EXCEPT ![seat] =
                     [player EXCEPT !.chips = 0,
                                    !.totalBetThisRound = newTotal,
                                    !.currentBet = newTotal,
                                    !.isAllIn = TRUE]]
              /\ pot' = pot + player.chips
              /\ excess >= minRaise /\ excess > 0 =>
                     /\ currentBet' = newTotal
                     /\ lastRaiserIndex' = currentPlayerIndex
                     /\ minRaise' = excess
              /\ excess > 0 /\ excess < minRaise =>
                     /\ currentBet' = newTotal
                     /\ UNCHANGED <<lastRaiserIndex, minRaise>>
              /\ excess <= 0 =>
                     UNCHANGED <<currentBet, lastRaiserIndex, minRaise>>]_vars

\* a short all-in over the big blind: the current bet rose to the player's
\* total, the big blind is still the last raiser
C18_Witness ==
    /\ result.op = "processAction"
    /\ result.action = ALL_IN
    /\ result.ok
    /\ ~isHandComplete
    /\ phase = PREFLOP
    /\ currentBet > BigBlind
    /\ currentBet < BigBlind + minRaise
    /\ lastRaiserIndex = bigBlindIndex(Engine)
    /\ lastRaiserIndex # currentPlayerIndex
    /\ \A seat \in 0..(Len(players) - 1) :
           players[seat + 1].totalBetThisRound = currentBet
               <=> seat = currentPlayerIndex

\* C19: a CALL submitted, while a hand is being played, for a player who can
\* act succeeds and moves min(currentBet - totalBetThisRound, chips) chips,
\* never a negative amount and never more than the stack, from the stack to
\* the pot; the player is all-in exactly when the stack reaches 0;
\* currentBet, minRaise and lastRaiserIndex are unchanged.
C19_CallCommitsDifference ==
    [][(/\ handStart >= 0 /\ ~isHandComplete /\ pc = "idle"
        /\ ActingPlayerCanAct
        /\ result'.op = "processAction" /\ result'.action = CALL) =>
          LET seat == currentPlayerIndex + 1
              player == players[seat]
              committed == Min(currentBet - player.totalBetThisRound, player.chips)
          IN  /\ result'.ok
              /\ committed >= 0
              /\ committed <= player.chips
              /\ players'[seat].chips = player.chips - committed
              /\ players'[seat].totalBetThisRound =
                     player.totalBetThisRound + committed
              /\ pot' = pot + committed
              /\ players'[seat].isAllIn <=> (players'[seat].chips = 0)
              /\ UNCHANGED <<currentBet, minRaise, lastRaiserIndex>>]_vars

\* C20: while a hand is being played a CHECK is accepted exactly when the
\* acting player can act and that player's totalBetThisRound equals
\* currentBet; an accepted CHECK changes no chips, pot, bet or flag.
C20_CheckAcceptedIff ==
    [][(/\ handStart >= 0 /\ ~isHandComplete /\ pc = "idle"
        /\ result'.op = "processAction" /\ result'.action = CHECK) =>
          /\ result'.ok <=>
                 /\ ActingPlayerCanAct
                 /\ PlayerAt(Engine, currentPlayerIndex).totalBetThisRound
                        = currentBet
          /\ result'.ok =>
                 UNCHANGED <<players, pot, currentBet, minRaise, lastRaiserIndex,
                             phase, communityCards, deck, dealerIndex,
                             currentPlayerIndex, isHandComplete, winners>>]_vars

\* C21: when a betting round completes before the river, the same call of
\* advance sets every player's totalBetThisRound to 0, currentBet to 0,
\* minRaise to the big blind and the last raiser to none, burns one card,
\* deals 3 community cards entering the flop or 1 entering the turn or the
\* river from the front of the deck, and sets the acting index to the first
\* seat after the dealer that is neither folded nor all-in.
cardsDealtEntering(ph) == IF ph = FLOP THEN 3 ELSE 1

phaseAfter(ph) ==
    IF ph = PREFLOP THEN FLOP
    ELSE IF ph = FLOP THEN TURN
    ELSE IF ph = TURN THEN RIVER
    ELSE SHOWDOWN

firstAbleSeatAfterDealer(ps, dealer, seat) ==
    \E k \in 1..Len(ps) :
        /\ seat = (dealer + k) % Len(ps)
        /\ CanAct(ps[seat + 1])
        /\ \A j \in 1..(k - 1) : ~CanAct(ps[((dealer + j) % Len(ps)) + 1])

C21_RoundCompletionDealsNextStreet ==
    [][(handStart >= 0 /\ pc = "idle" /\ result'.op = "advance"
            /\ phase' # phase /\ phase' # SHOWDOWN) =>
          /\ phase' = phaseAfter(phase)
          /\ \A i \in 1..Len(players') :
                 /\ players'[i].totalBetThisRound = 0
                 /\ players'[i].currentBet = 0
          /\ currentBet' = 0
          /\ minRaise' = BigBlind
          /\ lastRaiserIndex' = -1
          /\ communityCards' = communityCards \o
                 dealt(remaining(deck, 1), cardsDealtEntering(phase'))
          /\ deck' = remaining(deck, 1 + cardsDealtEntering(phase'))
          /\ firstAbleSeatAfterDealer(players', dealerIndex', currentPlayerIndex')]_vars

\* C22: within a hand the phase moves forward one step at a time in the
\* order preflop, flop, turn, river, showdown, never skipping a phase and
\* never moving backwards; the call of advance that completes the river round
\* moves to the showdown without dealing a card and resolves the showdown,
\* so the showdown phase is only seen with isHandComplete true.
C22_PhaseMovesOneStepForward ==
    [][(handStart >= 0 /\ result'.op # "startNewHand") =>
          /\ phase' = phase \/ phase' = phaseAfter(phase)
          /\ (phase' = SHOWDOWN /\ phase # SHOWDOWN) =>
                 /\ phase = RIVER
                 /\ result'.op = "advance"
                 /\ communityCards' = communityCards
                 /\ deck' = deck
                 /\ winners' # <<>>
                 /\ pot' = 0
          /\ phase' = SHOWDOWN => isHandComplete']_vars

\* the call of advance that completed the river round and resolved the showdown
C22_Witness ==
    /\ phase = SHOWDOWN
    /\ isHandComplete
    /\ result.op = "advance"
    /\ after = 0
    /\ Len(communityCards) = 5
    /\ winners # <<>>

\* C23: after a successful startNewHand with n players every player holds
\* exactly 2 hole cards dealt one at a time in seat order: the player at
\* index i has the i-th and the (n+i)-th card of the shuffled deck, counted
\* from 0 at the front, and 52 - 2n cards remain in the deck.
C23_HoleCardsRoundRobin ==
    [][(result'.op = "startNewHand" /\ result'.ok) =>
          \E rnd \in RandomDraws :
             LET shuffled == shuffleDeck(createDeck, rnd)
                 n == Len(players')
             IN  /\ \A i \in 0..(n - 1) :
                        players'[i + 1].holeCards =
                            <<shuffled[i + 1], shuffled[n + i + 1]>>
                 /\ Len(deck') = 52 - 2 * n
                 /\ deck' = SubSeq(shuffled, 2 * n + 1, 52)]_vars

\* three players hold two cards each and 46 cards remain
C23_Witness ==
    /\ result.op = "startNewHand"
    /\ result.ok
    /\ Len(players) = 3
    /\ \A i \in 1..3 : Len(players[i].holeCards) = 2
    /\ Len(deck) = 46

\* C24: every startNewHand that returns true moves dealerIndex by exactly one
\* seat modulo the number of players that have chips, and afterwards
\* dealerIndex, the seats of the blinds and the acting index are indices of
\* the filtered player list, also when players without chips were removed
\* since the previous hand.
C24_DealerMovesOneSeat ==
    [][(result'.op = "startNewHand" /\ result'.ok) =>
          LET n == Len(players')
              d == dealerIndex'
              sb == IF n = 2 THEN d ELSE (d + 1) % n
              bb == IF n = 2 THEN (d + 1) % n ELSE (d + 2) % n
          IN  /\ n = Cardinality(fundedBefore)
              /\ d = (dealerIndex + 1) % n
              /\ InRange(Engine', d)
              /\ InRange(Engine', sb)
              /\ InRange(Engine', bb)
              /\ InRange(Engine', currentPlayerIndex')
              /\ lastRaiserIndex' = bb
              /\ players'[sb + 1].totalBetThisRound > 0
              /\ players'[bb + 1].totalBetThisRound > 0
              /\ \A j \in 1..n : Len(players'[j].holeCards) = 2]_vars

\* the second hand of a match of three, started after the second player
\* lost its last chips
C24_Witness ==
    /\ result.op = "startNewHand"
    /\ result.ok
    /\ hands = 2
    /\ Len(players) = 2
    /\ players[1].name = 1
    /\ players[2].name = 3

\* C25: every player's stack is a non-negative integer in every reachable
\* state: no blind, CALL, BET, RAISE or ALL_IN takes more chips from a
\* player than the player holds.
C25_StacksNeverNegative ==
    \A i \in 1..Len(players) : players[i].chips \in Nat

\* a call for less than the current bet that took the caller's last chips
C25_Witness ==
    /\ result.op = "processAction"
    /\ result.action = CALL
    /\ result.ok
    /\ ~isHandComplete
    /\ PlayerAt(Engine, currentPlayerIndex).chips = 0
    /\ PlayerAt(Engine, currentPlayerIndex).isAllIn
    /\ PlayerAt(Engine, currentPlayerIndex).totalBetThisRound < currentBet

\* C26: evaluate5CardHand gives every hand of 5 distinct cards exactly one of
\* the 10 categories, the highest that applies under the standard
\* definitions: royal flush (10-J-Q-K-A of one suit), straight flush, four of
\* a kind, full house, flush, straight (five consecutive values, or
\* A-2-3-4-5), three of a kind, two pair, one pair, high card.
valuesOf(cards) == { CardValue(cards[i]) : i \in 1..Len(cards) }

suitsOf(cards) == { CardSuit(cards[i]) : i \in 1..Len(cards) }

timesHeld(cards, v) == Cardinality({ i \in 1..Len(cards) : CardValue(cards[i]) = v })

valuesHeld(cards, n) == { v \in valuesOf(cards) : timesHeld(cards, v) = n }

oneSuit(cards) == Cardinality(suitsOf(cards)) = 1

consecutive(cards) ==
    /\ Cardinality(valuesOf(cards)) = 5
    /\ \/ \E low \in 2..10 : valuesOf(cards) = low..(low + 4)
       \/ valuesOf(cards) = {14, 2, 3, 4, 5}

StandardCategory(cards) ==
    IF oneSuit(cards) /\ valuesOf(cards) = 10..14 THEN ROYAL_FLUSH
    ELSE IF oneSuit(cards) /\ consecutive(cards) THEN STRAIGHT_FLUSH
    ELSE IF valuesHeld(cards, 4) # {} THEN FOUR_OF_A_KIND
    ELSE IF valuesHeld(cards, 3) # {} /\ valuesHeld(cards, 2) # {} THEN FULL_HOUSE
    ELSE IF oneSuit(cards) THEN FLUSH
    ELSE IF consecutive(cards) THEN STRAIGHT
    ELSE IF valuesHeld(cards, 3) # {} THEN THREE_OF_A_KIND
    ELSE IF Cardinality(valuesHeld(cards, 2)) = 2 THEN TWO_PAIR
    ELSE IF Cardinality(valuesHeld(cards, 2)) = 1 THEN ONE_PAIR
    ELSE HIGH_CARD

C26_CategoryIsStandard ==
    evalOp = "evaluate5CardHand" =>
        /\ evalHand.rank \in HIGH_CARD..ROYAL_FLUSH
        /\ evalHand.rank = StandardCategory(evalCards)

\* a wheel of two suits was evaluated as a straight
C26_Witness ==
    /\ evalOp = "evaluate5CardHand"
    /\ valuesOf(evalCards) = {14, 2, 3, 4, 5}
    /\ ~oneSuit(evalCards)
    /\ evalHand.rank = STRAIGHT

\* C27: for 5 to 7 cards evaluateBestHand returns a hand value that compares
\* greater than or equal to the value of every five-card subset (1, 6 or 21
\* of them) and is the value of one of them; for fewer than 5 cards it
\* returns null.  So a straight flush in any subset is not outranked by a
\* flush or a straight, and four of a kind has the quad rank followed by the
\* highest of all the other cards.
fiveOf(cards) == { S \in SUBSET (1..Len(cards)) : Cardinality(S) = 5 }

cardsAt(cards, S) ==
    LET at == ArrayOf(S)
    IN  <<cards[at[1]], cards[at[2]], cards[at[3]], cards[at[4]], cards[at[5]]>>

highestOf(S) == CHOOSE v \in S : \A w \in S : v >= w

C27_BestHandIsMaximum ==
    evalOp = "evaluateBestHand" =>
        IF Len(evalCards) < 5 THEN evalHand = NoHand
        ELSE /\ Cardinality(fiveOf(evalCards)) =
                    (IF Len(evalCards) = 5 THEN 1
                     ELSE IF Len(evalCards) = 6 THEN 6 ELSE 21)
             /\ \A S \in fiveOf(evalCards) :
                    compareHands(evalHand,
                                 evaluate5CardHand(cardsAt(evalCards, S))) >= 0
             /\ \E S \in fiveOf(evalCards) :
                    evalHand = evaluate5CardHand(cardsAt(evalCards, S))
             /\ (\E S \in fiveOf(evalCards) :
                    StandardCategory(cardsAt(evalCards, S)) >= STRAIGHT_FLUSH)
                   => evalHand.rank >= STRAIGHT_FLUSH
             /\ evalHand.rank = FOUR_OF_A_KIND =>
                   \E quad \in valuesHeld(evalCards, 4) :
                       evalHand.kickers =
                           <<quad, highestOf(valuesOf(evalCards) \ {quad})>>

\* seven cards with four aces: the king among the other three is the kicker
C27_Witness ==
    /\ evalOp = "evaluateBestHand"
    /\ Len(evalCards) = 7
    /\ evalHand.rank = FOUR_OF_A_KIND
    /\ evalHand.kickers = <<14, 13>>
    /\ valuesOf(evalCards) = {14, 13, 2, 3}

\* C28: over the hand values evaluate5CardHand produces, compareHands is a
\* total preorder: a hand compares 0 with itself, the sign of compare(a, b)
\* is the opposite of the sign of compare(b, a), the relation is transitive,
\* and a hand of a higher category compares greater than any hand of a
\* lower category.
Sign(x) == IF x > 0 THEN 1 ELSE IF x < 0 THEN -1 ELSE 0

\* the values of the hands a hand value is compared to
SampleValues == { evaluate5CardHand(cards) : cards \in CompareSamples }

notBelow(a, b) == compareHands(a, b) >= 0

C28_CompareIsTotalPreorder ==
    evalOp = "compareHands" =>
        /\ evalResult = compareHands(evalOther, evalHand)
        /\ compareHands(evalOther, evalOther) = 0
        /\ compareHands(evalHand, evalHand) = 0
        /\ Sign(compareHands(evalHand, evalOther)) = 0 - Sign(evalResult)
        /\ evalOther.rank > evalHand.rank => evalResult > 0
        /\ evalOther.rank < evalHand.rank => evalResult < 0
        /\ \A c \in SampleValues :
              /\ notBelow(evalOther, evalHand) /\ notBelow(evalHand, c)
                    => notBelow(evalOther, c)
              /\ notBelow(c, evalOther) /\ notBelow(evalOther, evalHand)
                    => notBelow(c, evalHand)
              /\ notBelow(evalOther, c) /\ notBelow(c, evalHand)
                    => notBelow(evalOther, evalHand)
              /\ notBelow(evalHand, evalOther) /\ notBelow(evalOther, c)
                    => notBelow(evalHand, c)

\* two hands of one category with the same first tiebreak element: a later
\* element decides
C28_Witness ==
    /\ evalOp = "compareHands"
    /\ evalOther.rank = evalHand.rank
    /\ evalOther.kickers[1] = evalHand.kickers[1]
    /\ evalResult < 0

\* C29: a wheel (A-2-3-4-5 of more than one suit) is a straight with the
\* tiebreak sequence <<5>>; it compares strictly below every other straight,
\* the six-high straight 2-3-4-5-6 in particular, and the tiebreak sequence
\* of every straight is the single high card of its run.
Wheel == [rank |-> STRAIGHT, kickers |-> <<5>>]

highCardOfRun(cards) ==
    IF valuesOf(cards) = {14, 2, 3, 4, 5} THEN 5 ELSE highestOf(valuesOf(cards))

C29_WheelIsLowestStraight ==
    /\ (evalOp \in {"evaluate5CardHand", "compareHands"}
           /\ consecutive(evalCards) /\ ~oneSuit(evalCards)) =>
          evalHand = [rank |-> STRAIGHT, kickers |-> <<highCardOfRun(evalCards)>>]
    /\ (evalOp = "compareHands" /\ evalOther = Wheel
           /\ evalHand.rank = STRAIGHT /\ evalHand # Wheel) =>
          evalResult < 0
    /\ (evalOp = "compareHands" /\ evalHand = Wheel
           /\ evalOther.rank = STRAIGHT /\ evalOther # Wheel) =>
          evalResult > 0

\* a wheel was compared with the six-high straight and is below it
C29_Witness ==
    /\ evalOp = "compareHands"
    /\ evalOther = Wheel
    /\ valuesOf(evalCards) = 2..6
    /\ evalHand = [rank |-> STRAIGHT, kickers |-> <<6>>]
    /\ evalResult < 0

\* C30: two hand values of the same category have tiebreak sequences of the
\* same length, and compareHands returns 0 exactly when the categories are
\* equal and the tiebreak sequences are identical element by element.
C30_TieOnlyWhenIdentical ==
    evalOp = "compareHands" =>
        /\ evalOther.rank = evalHand.rank =>
              Len(evalOther.kickers) = Len(evalHand.kickers)
        /\ evalResult = 0 <=>
              /\ evalOther.rank = evalHand.rank
              /\ Len(evalOther.kickers) = Len(evalHand.kickers)
              /\ \A i \in 1..Len(evalHand.kickers) :
                     evalOther.kickers[i] = evalHand.kickers[i]

\* two pair with the same pairs and different last cards do not tie
C30_Witness ==
    /\ evalOp = "compareHands"
    /\ evalOther.rank = TWO_PAIR
    /\ evalHand.rank = TWO_PAIR
    /\ evalOther.kickers[1] = evalHand.kickers[1]
    /\ evalOther.kickers[2] = evalHand.kickers[2]
    /\ evalOther.kickers[3] # evalHand.kickers[3]
    /\ evalResult # 0

\* C31: when advance is called after the hand is complete (after a fold win
\* or after the showdown) and processAction has not been called since, every
\* player's stack is as before, the pot is 0, no card is dealt and
\* isHandComplete stays true; the same holds when advance is called again,
\* and once more after that.
sameStacksAndCards(e) ==
    /\ [i \in 1..Len(e.players) |-> e.players[i].chips]
           = [i \in 1..Len(players) |-> players[i].chips]
    /\ e.pot = 0
    /\ e.communityCards = communityCards
    /\ e.deck = deck
    /\ [i \in 1..Len(e.players) |-> e.players[i].holeCards]
           = [i \in 1..Len(players) |-> players[i].holeCards]
    /\ e.isHandComplete

C31_AdvanceAfterCompletionIsIdle ==
    [][(AdvanceCalled /\ isHandComplete /\ after = 0)
          => \A once \in {Engine'} :
                /\ sameStacksAndCards(once)
                /\ \A twice \in {advance(once)} :
                      /\ twice.returns /\ sameStacksAndCards(twice.e)
                      /\ \A thrice \in {advance(twice.e)} :
                            thrice.returns /\ sameStacksAndCards(thrice.e)]_vars

\* advance was called again after a showdown among three players that two of
\* them won
C31_Witness ==
    /\ isHandComplete /\ after = 1 /\ result.op = "advance"
    /\ phase = SHOWDOWN /\ Len(communityCards) = 5
    /\ Len(players) = 3 /\ Len(winners) = 2
    /\ pot = 0

\* C32: the controller calls advance after a human or bot action only if
\* processAction accepted the action: when the action is rejected the acting
\* index is not moved, the same player is still to act, and the phase, the
\* pot and the players are as they were.
C32_RejectedActionKeepsTurn ==
    [][(result'.op \in {"handleHumanAction", "processBotAction"} /\ ~result'.ok)
          => /\ currentPlayerIndex' = currentPlayerIndex
             /\ phase' = phase
             /\ pot' = pot
             /\ players' = players
             /\ isHandComplete' = isHandComplete]_vars

\* C33: startNewHand never destroys chips, in whatever state it is called,
\* a hand in progress with chips in the pot included: the stacks plus the pot
\* after the call equal the stacks plus the pot before it.
C33_StartNewHandKeepsChips ==
    [][result'.op = "startNewHand"
          => SumChips(players') + pot' = SumChips(players) + pot]_vars

\* C34: the five-high straight flush (a suited A-2-3-4-5) compares strictly
\* below every other straight flush, the six-high one in particular: when the
\* value of another straight flush is compared with it, the other one is
\* above.
C34_SteelWheelIsLowestStraightFlush ==
    (/\ evalOp = "compareHands"
     /\ oneSuit(evalCards) /\ valuesOf(evalCards) = {14, 2, 3, 4, 5}
     /\ evalOther.rank = STRAIGHT_FLUSH
     /\ evalOther # evalHand)
        => evalResult > 0

\* C35: once isHandComplete is true, processAction returns false for every
\* action, and no call of processAction or advance before the next
\* startNewHand moves chips: every stack and the pot stay as they are.
C35_NoActionAfterCompletion ==
    [][(handStart >= 0 /\ isHandComplete
           /\ result'.op \in {"processAction", "advance"})
          => /\ result'.op = "processAction" => ~result'.ok
             /\ [i \in 1..Len(players') |-> players'[i].chips]
                    = [i \in 1..Len(players) |-> players[i].chips]
             /\ pot' = pot]_vars

\* C36: after startNewHand has returned true the first player to act is
\* neither folded nor all-in, whatever the number of players and their
\* stacks, stacks not larger than a blind included.
C36_FirstActorCanAct ==
    (result.op = "startNewHand" /\ result.ok)
        => /\ InRange(Engine, currentPlayerIndex)
           /\ CanAct(PlayerAt(Engine, currentPlayerIndex))

\* C37: while a hand is in progress (after a successful startNewHand, until
\* isHandComplete is true) every player is all-in exactly when the player's
\* stack is 0, and no player is both folded and all-in.
C37_AllInIffNoChips ==
    (handStart >= 0 /\ ~isHandComplete)
        => \A i \in 1..Len(players) :
              /\ players[i].isAllIn <=> players[i].chips = 0
              /\ ~(players[i].hasFolded /\ players[i].isAllIn)

\* three players in a hand: one has folded and still has chips, one is all-in
\* with no chips, one can act
C37_Witness ==
    /\ handStart >= 0 /\ ~isHandComplete /\ pc = "idle"
    /\ Len(players) = 3
    /\ \E i \in 1..3 : players[i].hasFolded /\ players[i].chips > 0
    /\ \E i \in 1..3 : players[i].isAllIn /\ players[i].chips = 0
    /\ \E i \in 1..3 : CanAct(players[i]) /\ players[i].chips > 0
    /\ result.op = "processAction" /\ result.ok

\* C38: minRaise is at least bigBlind in every state; while a hand is in
\* progress it does not decrease as long as the phase stays the same; and it
\* is exactly bigBlind after every step that changes the phase and after
\* every startNewHand.
C38_MinRaiseFloorAndReset ==
    [][/\ minRaise >= BigBlind
       /\ minRaise' >= BigBlind
       /\ (phase' # phase \/ result'.op = "startNewHand") => minRaise' = BigBlind
       /\ (handStart >= 0 /\ ~isHandComplete /\ phase' = phase
             /\ result'.op # "startNewHand") => minRaise' >= minRaise]_vars

\* heads-up, the big blind was raised to 5 and called: on the flop minRaise,
\* which was 3, is the big blind again
C38_Witness ==
    /\ result.op = "advance" /\ result.phaseChanged
    /\ phase = FLOP
    /\ Len(players) = 2
    /\ pot = 10
    /\ \A i \in 1..2 : CanAct(players[i]) /\ players[i].chips = 2
    /\ minRaise = BigBlind

\* C39: in every state of a started hand the remaining deck, the players'
\* hole cards and the community cards are cards of the 52-card deck, no card
\* is among them twice, every player holds two cards, the board has the
\* number of cards of the phase, and the cards that are in none of them are
\* exactly the cards burned so far, one for each street dealt: together they
\* are the 52 cards, and the deck has not run out.
RECURSIVE holeCardsUpTo(_)
holeCardsUpTo(n) ==
    IF n = 0 THEN <<>> ELSE holeCardsUpTo(n - 1) \o players[n].holeCards

cardsHeld == deck \o holeCardsUpTo(Len(players)) \o communityCards

burnedSoFar(ph) ==
    IF ph = PREFLOP THEN 0 ELSE IF ph = FLOP THEN 1 ELSE IF ph = TURN THEN 2 ELSE 3

C39_CardsPartitionTheDeck ==
    handStart >= 0 =>
        LET held == { cardsHeld[i] : i \in 1..Len(cardsHeld) }
            burnedCards == (0..51) \ held
        IN  /\ held \subseteq 0..51
            /\ Cardinality(held) = Len(cardsHeld)
            /\ \A i \in 1..Len(players) : Len(players[i].holeCards) = 2
            /\ Len(communityCards) = cardsOnBoard(phase)
            /\ Cardinality(burnedCards) = burnedSoFar(phase)
            /\ Len(deck) = 52 - 2 * Len(players) - cardsOnBoard(phase)
                              - burnedSoFar(phase)

\* three players on the river: 6 hole cards, 5 community cards, 3 burned
\* cards and 38 cards left in the deck
C39_Witness ==
    /\ handStart >= 0 /\ ~isHandComplete
    /\ phase = RIVER
    /\ Len(players) = 3
    /\ Len(communityCards) = 5
    /\ Len(deck) = 38

\* C40: in every reachable state isBettingRoundComplete returns true exactly
\* when every player who is neither folded nor all-in has totalBetThisRound
\* >= currentBet (true when there is no such player); the condition names
\* neither the phase, the acting index, lastRaiserIndex nor the big-blind
\* seat.
everyActiveBetMatched ==
    \A i \in 1..Len(players) :
        CanAct(players[i]) => players[i].totalBetThisRound >= currentBet

====
